---- MODULE Spec2Model ----
(***************************************************************************)
(* JSON editor (tgfdhhtrd/json-editor): the editor store's tree model,     *)
(* its path-addressed edit functions, the edit-time literal coercion of    *)
(* the tree component and the plugin reorder operation.                    *)
(*                                                                         *)
(* JavaScript values are tagged records.  An object is the sequence of its *)
(* own entries in the order Object.entries reports them: canonical array   *)
(* index keys first, ascending, then the other keys in insertion order.    *)
(* An array is its element sequence (Undefined marks a hole) plus the      *)
(* non-index properties set on it.  A thrown TypeError is the value Throw. *)
(***************************************************************************)
EXTENDS Integers, Sequences, FiniteSets, TLC

VARIABLES
    \* the path functions applied to one input
    pOp, pRoot, pPath, pVal, pKey, pRet, pArg,
    \* the value edit of the tree component applied to one text
    cOp, cText, cRet,
    \* the editor store
    currentFile, jsonContent, originalJsonContent, displayJsonContent,
    jsonData, displayJsonData, isModified, globalSelectedContainerType,
    \* which of the other two content fields hold the very object jsonContent holds
    sameObject,
    \* history: the last store operation that completed, the content of the
    \* last load, whether a save followed it, and the operations of each
    \* bounded kind spent since it, and how many of each kind a run allows
    lastOp, loadedContent, savedSinceLoad, used, limits,
    \* the preset manager: its storage and the number of ids it generated
    storage, idsIssued,
    \* history: by preset id, the plugin order and the slot entries of the
    \* display tree when the store saved the preset
    captured,
    \* the file service: the files on disk, path |-> content
    disk,
    \* the file store as the editor's requests see it, the requests that are
    \* in flight and the number of requests issued
    persisted, pending, issued,
    \* history: the content of the last load or successful save, and the
    \* most recently issued load request with its outcome
    syncedContent, latestLoad,
    \* one call of fileApi.readFile: its position, the outcome of each
    \* attempt and the waits between them
    retry

pathVars == <<pOp, pRoot, pPath, pVal, pKey, pRet, pArg>>

coerceVars == <<cOp, cText, cRet>>

storeVars ==
    <<currentFile, jsonContent, originalJsonContent, displayJsonContent,
      jsonData, displayJsonData, isModified, globalSelectedContainerType,
      sameObject, lastOp, loadedContent, savedSinceLoad, used, limits>>

presetVars == <<storage, idsIssued, captured>>

fileVars == <<disk>>

asyncVars == <<persisted, pending, issued, syncedContent, latestLoad>>

retryVars == <<retry>>

vars == <<pathVars, coerceVars, storeVars, presetVars, fileVars, asyncVars, retryVars>>

(***************************************************************************)
(* Values                                                                  *)
(***************************************************************************)
Null == [t |-> "null"]

Undefined == [t |-> "undefined"]

Throw == [t |-> "throw"]

Bool(b) == [t |-> "boolean", b |-> b]

\* A number is sign, integer part and fraction digits (no trailing zero);
\* -0 and 0 are the one value 0, as === and JSON.stringify see them.
Num(n) == [t |-> "number", neg |-> n < 0, i |-> IF n < 0 THEN 0 - n ELSE n, f |-> <<>>]

\* A string is the sequence of its characters.
Str(s) == [t |-> "string", s |-> s]

Entry(k, v) == [k |-> k, v |-> v]

Obj(e) == [t |-> "object", e |-> e]

Arr(e) == [t |-> "array", e |-> e, x |-> <<>>]

Front(path) == SubSeq(path, 1, Len(path) - 1)

Last(path) == path[Len(path)]

EmptyObj == Obj(<<>>)

EmptyArr == Arr(<<>>)

IsNullish(v) == v.t \in {"null", "undefined"}

IsPrimitive(v) == v.t \in {"boolean", "number", "string"}

IsContainer(v) == v.t \in {"object", "array"}

\* JavaScript truthiness (!!v).
Truthy(v) ==
    CASE v.t \in {"null", "undefined"} -> FALSE
      [] v.t = "boolean" -> v.b
      [] v.t = "number" -> ~(v.i = 0 /\ v.f = <<>>)
      [] v.t = "string" -> v.s # <<>>
      [] OTHER -> TRUE

(***************************************************************************)
(* Property keys.  The canonical array-index strings of the model are the  *)
(* one-digit ones; every array of the model is shorter than ten elements.  *)
(***************************************************************************)
IndexKeys == <<"0", "1", "2", "3", "4", "5", "6", "7", "8", "9">>

IsIndexKey(k) == \E i \in 1..Len(IndexKeys) : IndexKeys[i] = k

KeyIndex(k) == (CHOOSE i \in 1..Len(IndexKeys) : IndexKeys[i] = k) - 1

\* Number.prototype.toString of an array index.
IndexToString(i) == IndexKeys[i + 1]

\* parseInt over the keys of the model: an index string is its number,
\* "-1" is -1, every other key of the model parses to NaN.
ParseInt(k) ==
    IF IsIndexKey(k) THEN [nan |-> FALSE, n |-> KeyIndex(k)]
    ELSE IF k = "-1" THEN [nan |-> FALSE, n |-> 0 - 1]
    ELSE [nan |-> TRUE, n |-> 0]

(***************************************************************************)
(* Own-property operations on entry sequences (ordinary objects)           *)
(***************************************************************************)
EntryKeys(e) == [i \in 1..Len(e) |-> e[i].k]

HasKey(e, k) == \E i \in 1..Len(e) : e[i].k = k

EntryPos(e, k) == CHOOSE i \in 1..Len(e) : e[i].k = k

EntryGet(e, k) == IF HasKey(e, k) THEN e[EntryPos(e, k)].v ELSE Undefined

\* Position before which a new key is created by [[Set]]: an index key goes
\* before the first entry that is a non-index key or a larger index.
InsertPos(e, k) ==
    IF ~IsIndexKey(k) THEN Len(e) + 1
    ELSE LET later == {i \in 1..Len(e) :
                          \/ ~IsIndexKey(e[i].k)
                          \/ KeyIndex(e[i].k) > KeyIndex(k)}
         IN  IF later = {} THEN Len(e) + 1
             ELSE CHOOSE i \in later : \A j \in later : i <= j

EntryPut(e, k, v) ==
    IF HasKey(e, k)
    THEN [e EXCEPT ![EntryPos(e, k)] = Entry(k, v)]
    ELSE LET p == InsertPos(e, k)
         IN  SubSeq(e, 1, p - 1) \o <<Entry(k, v)>> \o SubSeq(e, p, Len(e))

EntryDel(e, k) ==
    IF HasKey(e, k)
    THEN LET p == EntryPos(e, k)
         IN  SubSeq(e, 1, p - 1) \o SubSeq(e, p + 1, Len(e))
    ELSE e

(***************************************************************************)
(* current[key], current[key] = v, delete current[key], splice             *)
(* (strict mode: the store is an ES module)                                *)
(***************************************************************************)
GetProp(v, k) ==
    CASE IsNullish(v) -> Throw
      [] v.t = "object" -> EntryGet(v.e, k)
      [] v.t = "array" ->
            IF IsIndexKey(k)
            THEN IF KeyIndex(k) < Len(v.e) THEN v.e[KeyIndex(k) + 1] ELSE Undefined
            ELSE EntryGet(v.x, k)
      [] v.t = "string" ->
            IF IsIndexKey(k) /\ KeyIndex(k) < Len(v.s)
            THEN Str(<<v.s[KeyIndex(k) + 1]>>)
            ELSE Undefined
      [] OTHER -> Undefined

Holes(n) == [i \in 1..n |-> Undefined]

SetProp(v, k, x) ==
    CASE v.t = "object" -> Obj(EntryPut(v.e, k, x))
      [] v.t = "array" ->
            IF IsIndexKey(k)
            THEN IF KeyIndex(k) < Len(v.e)
                 THEN [v EXCEPT !.e[KeyIndex(k) + 1] = x]
                 ELSE [v EXCEPT !.e = v.e \o Holes(KeyIndex(k) - Len(v.e)) \o <<x>>]
            ELSE [v EXCEPT !.x = EntryPut(v.x, k, x)]
      [] OTHER -> Throw

DeleteProp(v, k) ==
    CASE IsNullish(v) -> Throw
      [] v.t = "object" -> Obj(EntryDel(v.e, k))
      [] v.t = "string" ->
            IF IsIndexKey(k) /\ KeyIndex(k) < Len(v.s) THEN Throw ELSE v
      [] OTHER -> v

\* Array.prototype.splice(start, 1) with start as parseInt returned it.
Splice1(v, start) ==
    LET len == Len(v.e)
        rel == IF start.nan THEN 0 ELSE start.n
        from == IF rel < 0
                THEN (IF len + rel < 0 THEN 0 ELSE len + rel)
                ELSE (IF rel > len THEN len ELSE rel)
    IN  IF from < len
        THEN [v EXCEPT !.e = SubSeq(v.e, 1, from) \o SubSeq(v.e, from + 2, len)]
        ELSE v

(***************************************************************************)
(* JSON.parse(JSON.stringify(v))                                           *)
(***************************************************************************)
RECURSIVE JsonClone(_)
JsonClone(v) ==
    CASE v.t = "undefined" -> Throw
      [] v.t = "object" ->
            LET kept == SelectSeq(v.e, LAMBDA en : en.v.t # "undefined")
            IN  Obj([i \in 1..Len(kept) |-> Entry(kept[i].k, JsonClone(kept[i].v))])
      [] v.t = "array" ->
            Arr([i \in 1..Len(v.e) |->
                    IF v.e[i].t = "undefined" THEN Null ELSE JsonClone(v.e[i])])
      [] OTHER -> v

(***************************************************************************)
(* Path-addressed access                                                   *)
(***************************************************************************)
RECURSIVE GetValueByPath(_, _)
GetValueByPath(obj, path) ==
    IF path = <<>> THEN obj
    ELSE IF IsNullish(obj) THEN Undefined
    ELSE GetValueByPath(GetProp(obj, Head(path)), Tail(path))

\* The loop and the final assignment of setValueByPath, run on `cur`:
\* the value `cur` holds afterwards, or Throw.
RECURSIVE WriteAt(_, _, _)
WriteAt(cur, path, value) ==
    IF Len(path) = 1 THEN SetProp(cur, path[1], value)
    ELSE LET key == Head(path)
             got == GetProp(cur, key)
         IN  IF got = Throw THEN Throw
             ELSE LET made == IF got = Undefined THEN SetProp(cur, key, EmptyObj) ELSE cur
                      next == IF got = Undefined THEN EmptyObj ELSE got
                  IN  IF made = Throw THEN Throw
                      ELSE LET below == WriteAt(next, Tail(path), value)
                           IN  IF below = Throw THEN Throw
                               ELSE IF IsPrimitive(made) THEN Throw
                               ELSE SetProp(made, key, below)

\* ret: the value returned (Throw when the call throws);
\* arg: what the caller's `obj` holds after the call.
SetValueByPath_NoCopy(obj, path, value) ==
    IF path = <<>> THEN [ret |-> value, arg |-> obj]
    ELSE LET w == WriteAt(obj, path, value)
         IN  [ret |-> w, arg |-> IF w = Throw THEN obj ELSE w]

SetValueByPath_EmptyPathKeeps(obj, path, value) ==
    IF path = <<>> THEN [ret |-> obj, arg |-> obj]
    ELSE LET newObj == JsonClone(obj)
         IN  [ret |-> IF newObj = Throw THEN Throw ELSE WriteAt(newObj, path, value),
              arg |-> obj]

SetValueByPath(obj, path, value) ==
    IF path = <<>> THEN [ret |-> value, arg |-> obj]
    ELSE LET newObj == JsonClone(obj)
         IN  [ret |-> IF newObj = Throw THEN Throw ELSE WriteAt(newObj, path, value),
              arg |-> obj]

\* The loop and the final removal of deleteValueByPath, run on `cur`.
RECURSIVE RemoveAt(_, _)
RemoveAt(cur, path) ==
    IF Len(path) = 1
    THEN IF cur.t = "array" THEN Splice1(cur, ParseInt(path[1]))
         ELSE DeleteProp(cur, path[1])
    ELSE LET key == Head(path)
             got == GetProp(cur, key)
         IN  IF got = Throw THEN Throw
             ELSE IF got = Undefined THEN cur
             ELSE LET below == RemoveAt(got, Tail(path))
                  IN  IF below = Throw THEN Throw
                      ELSE IF IsPrimitive(cur) THEN cur
                      ELSE SetProp(cur, key, below)

DeleteValueByPath_SetsNull(obj, path) ==
    IF path = <<>> THEN [ret |-> obj, arg |-> obj]
    ELSE LET newObj == JsonClone(obj)
             parent == GetValueByPath(newObj, SubSeq(path, 1, Len(path) - 1))
         IN  [ret |-> IF newObj = Throw THEN Throw
                      ELSE IF parent.t = "array"
                              /\ GetValueByPath(newObj, path) # Undefined
                      THEN WriteAt(newObj, path, Null)
                      ELSE RemoveAt(newObj, path),
              arg |-> obj]

DeleteValueByPath_NoMissingCheck(obj, path) ==
    IF path = <<>> THEN [ret |-> obj, arg |-> obj]
    ELSE LET newObj == JsonClone(obj)
             parent == GetValueByPath(newObj, SubSeq(path, 1, Len(path) - 1))
         IN  [ret |-> IF newObj = Throw \/ IsNullish(parent) THEN Throw
                      ELSE RemoveAt(newObj, path),
              arg |-> obj]

DeleteValueByPath(obj, path) ==
    IF path = <<>> THEN [ret |-> obj, arg |-> obj]
    ELSE LET newObj == JsonClone(obj)
         IN  [ret |-> IF newObj = Throw THEN Throw ELSE RemoveAt(newObj, path),
              arg |-> obj]

(***************************************************************************)
(* Edit-time literal coercion (saveEdit, editing.type = 'value')           *)
(***************************************************************************)
Digits == <<"0", "1", "2", "3", "4", "5", "6", "7", "8", "9">>

IsDigit(c) == \E i \in 1..Len(Digits) : Digits[i] = c

DigitValue(c) == (CHOOSE i \in 1..Len(Digits) : Digits[i] = c) - 1

\* The white space of the model's texts is the space character.
IsSpace(c) == c = " "

RECURSIVE TrimStart(_)
TrimStart(s) == IF s # <<>> /\ IsSpace(Head(s)) THEN TrimStart(Tail(s)) ELSE s

RECURSIVE TrimEnd(_)
TrimEnd(s) ==
    IF s # <<>> /\ IsSpace(s[Len(s)]) THEN TrimEnd(SubSeq(s, 1, Len(s) - 1)) ELSE s

\* String.prototype.trim
Trim(s) == TrimEnd(TrimStart(s))

AllDigits(s) == s # <<>> /\ \A i \in 1..Len(s) : IsDigit(s[i])

\* /^-?\d+(\.\d+)?$/.test(s)
MatchesNumber(s) ==
    LET body == IF s # <<>> /\ Head(s) = "-" THEN Tail(s) ELSE s
    IN  \/ AllDigits(body)
        \/ \E d \in 1..Len(body) :
              /\ body[d] = "."
              /\ AllDigits(SubSeq(body, 1, d - 1))
              /\ AllDigits(SubSeq(body, d + 1, Len(body)))

RECURSIVE DigitsValue(_)
DigitsValue(s) ==
    IF s = <<>> THEN 0
    ELSE DigitsValue(SubSeq(s, 1, Len(s) - 1)) * Len(Digits) + DigitValue(s[Len(s)])

RECURSIVE DropTrailingZeros(_)
DropTrailingZeros(s) ==
    IF s # <<>> /\ s[Len(s)] = "0" THEN DropTrailingZeros(SubSeq(s, 1, Len(s) - 1))
    ELSE s

\* Number(s) for a text MatchesNumber accepts (short enough to be exact).
NumberOf(s) ==
    LET minus == Head(s) = "-"
        body == IF minus THEN Tail(s) ELSE s
        dots == {d \in 1..Len(body) : body[d] = "."}
        d == IF dots = {} THEN Len(body) + 1 ELSE CHOOSE x \in dots : TRUE
        int == DigitsValue(SubSeq(body, 1, d - 1))
        frac == DropTrailingZeros(SubSeq(body, d + 1, Len(body)))
    IN  [t |-> "number", neg |-> minus /\ ~(int = 0 /\ frac = <<>>),
         i |-> int, f |-> frac]

Quote == "\""

TextNull == <<"n", "u", "l", "l">>

TextTrue == <<"t", "r", "u", "e">>

TextFalse == <<"f", "a", "l", "s", "e">>

CoerceEdit_NoTrim(text) ==
    LET trimmedValue == text
    IN  IF trimmedValue = TextNull THEN Null
        ELSE IF trimmedValue = TextTrue \/ trimmedValue = TextFalse
        THEN Bool(trimmedValue = TextTrue)
        ELSE IF MatchesNumber(trimmedValue) THEN NumberOf(trimmedValue)
        ELSE IF trimmedValue # <<>> /\ Head(trimmedValue) = Quote
                /\ trimmedValue[Len(trimmedValue)] = Quote
        THEN Str(SubSeq(trimmedValue, 2, Len(trimmedValue) - 1))
        ELSE Str(trimmedValue)

\* The new value saveEdit hands to updateJsonValue for the text typed.
CoerceEdit(text) ==
    LET trimmedValue == Trim(text)
    IN  IF trimmedValue = TextNull THEN Null
        ELSE IF trimmedValue = TextTrue \/ trimmedValue = TextFalse
        THEN Bool(trimmedValue = TextTrue)
        ELSE IF MatchesNumber(trimmedValue) THEN NumberOf(trimmedValue)
        ELSE IF trimmedValue # <<>> /\ Head(trimmedValue) = Quote
                /\ trimmedValue[Len(trimmedValue)] = Quote
        THEN Str(SubSeq(trimmedValue, 2, Len(trimmedValue) - 1))
        ELSE Str(trimmedValue)

(***************************************************************************)
(* Node trees                                                              *)
(***************************************************************************)
NoChildren == [kind |-> "none", n |-> <<>>]

NoConfig == [has |-> FALSE, selectedChildren |-> <<>>]

\* A hole of an array: Array.prototype.map leaves it a hole of `children`.
HoleNode == [type |-> "hole"]

IsNode(n) == n # Null /\ n # HoleNode

GetJsonValueType(value) ==
    CASE value.t = "null" -> "null"
      [] value.t = "array" -> "array"
      [] value.t = "object" -> "object"
      [] value.t = "string" -> "string"
      [] value.t = "number" -> "number"
      [] value.t = "boolean" -> "boolean"
      [] OTHER -> "string"

RECURSIVE CreateJsonNode(_, _, _)
\* An array's elements built with the array's own path.
CreateJsonNode_ElementsShareThePath(obj, key, path) ==
    LET type == GetJsonValueType(obj)
        children ==
            IF type = "object"
            THEN [kind |-> "object",
                  n |-> [i \in 1..Len(obj.e) |->
                            CreateJsonNode(obj.e[i].v, obj.e[i].k, Append(path, obj.e[i].k))]]
            ELSE IF type = "array"
            THEN [kind |-> "array",
                  n |-> [i \in 1..Len(obj.e) |->
                            IF obj.e[i] = Undefined THEN HoleNode
                            ELSE CreateJsonNode(obj.e[i], IndexToString(i - 1), path)]]
            ELSE NoChildren
    IN  [key |-> key, value |-> obj, type |-> type, depth |-> Len(path),
         expanded |-> FALSE, path |-> path, children |-> children,
         parentDisplayConfig |-> NoConfig]

CreateJsonNode(obj, key, path) ==
    LET type == GetJsonValueType(obj)
        children ==
            IF type = "object"
            THEN [kind |-> "object",
                  n |-> [i \in 1..Len(obj.e) |->
                            CreateJsonNode(obj.e[i].v, obj.e[i].k, Append(path, obj.e[i].k))]]
            ELSE IF type = "array"
            THEN [kind |-> "array",
                  n |-> [i \in 1..Len(obj.e) |->
                            IF obj.e[i] = Undefined THEN HoleNode
                            ELSE CreateJsonNode(obj.e[i], IndexToString(i - 1),
                                                Append(path, IndexToString(i - 1)))]]
            ELSE NoChildren
    IN  [key |-> key, value |-> obj, type |-> type, depth |-> Len(path),
         expanded |-> FALSE, path |-> path, children |-> children,
         parentDisplayConfig |-> NoConfig]

\* children[key] of an object node's children, Null when absent.
ChildByKey(node, key) ==
    IF node.children.kind = "object"
       /\ \E i \in 1..Len(node.children.n) : node.children.n[i].key = key
    THEN node.children.n[CHOOSE i \in 1..Len(node.children.n) : node.children.n[i].key = key]
    ELSE Null

\* record[name], undefined for a property the record does not have
Field(record, name) == IF name \in DOMAIN record THEN record[name] ELSE Undefined

\* A slot entry {containerIndex, ...childData}: the properties of childData,
\* whichever they are, and the slot.
SlotEntry(containerIndex, childData) ==
    [name \in DOMAIN childData \cup {"containerIndex"} |->
        IF name \in DOMAIN childData THEN childData[name] ELSE containerIndex]

HasSlot(config, containerIndex) ==
    \E i \in 1..Len(config.selectedChildren) :
        config.selectedChildren[i].containerIndex = containerIndex

\* findIndex of the first entry of the slot
SlotPos(config, containerIndex) ==
    CHOOSE i \in 1..Len(config.selectedChildren) :
        /\ config.selectedChildren[i].containerIndex = containerIndex
        /\ \A j \in 1..(i - 1) : config.selectedChildren[j].containerIndex # containerIndex

\* The entry pushed whether or not the slot has one.
PutSlot_AlwaysPush(config, containerIndex, childData) ==
    [has |-> TRUE,
     selectedChildren |->
         Append(config.selectedChildren, SlotEntry(containerIndex, childData))]

\* node.parentDisplayConfig || { selectedChildren: [] }, with the slot's
\* entry replaced, or the entry pushed
PutSlot(config, containerIndex, childData) ==
    IF HasSlot(config, containerIndex)
    THEN [has |-> TRUE,
          selectedChildren |->
              [config.selectedChildren EXCEPT ![SlotPos(config, containerIndex)] =
                  SlotEntry(containerIndex, childData)]]
    ELSE [has |-> TRUE,
          selectedChildren |->
              Append(config.selectedChildren, SlotEntry(containerIndex, childData))]

RECURSIVE UpdateNodeConfig(_, _, _, _)
UpdateNodeConfig(node, targetPath, containerIndex, childData) ==
    IF node.path = targetPath
    THEN [node EXCEPT !.parentDisplayConfig =
              PutSlot(node.parentDisplayConfig, containerIndex, childData)]
    ELSE IF node.children.kind = "none" THEN node
    ELSE [node EXCEPT !.children.n =
              [i \in 1..Len(node.children.n) |->
                  IF node.children.n[i] = HoleNode THEN HoleNode
                  ELSE UpdateNodeConfig(node.children.n[i], targetPath,
                                        containerIndex, childData)]]

RECURSIVE FindChildByPath(_, _)
FindChildByPath(currentNode, pathKeys) ==
    IF pathKeys = <<>> THEN currentNode
    ELSE LET childNode == ChildByKey(currentNode, Head(pathKeys))
         IN  IF childNode = Null THEN Null
             ELSE IF Len(pathKeys) = 1 THEN childNode
             ELSE FindChildByPath(childNode, Tail(pathKeys))

\* `"key": JSON.stringify(value)` (sync) and `"key": getValueDisplay(value)`
\* (tree component) are the same text for a scalar and differ for a container.
DisplayText(key, value, format) ==
    [key |-> key, value |-> value,
     format |-> IF IsContainer(value) THEN format ELSE "literal"]

\* The descendant of a sibling that syncAllPluginsLevels resolves for
\* targetChildKeys: [node, path], node = Null when nothing resolves.
CorrespondingChild(node, targetChildKeys) ==
    LET direct == FindChildByPath(node, targetChildKeys)
        targetKey == targetChildKeys[Len(targetChildKeys)]
        optsNode == ChildByKey(node, "opts")
        underOpts == IF optsNode = Null THEN Null ELSE ChildByKey(optsNode, targetKey)
        sameKey == ChildByKey(node, targetKey)
    IN  IF direct # Null \/ targetChildKeys = <<>>
        THEN [node |-> direct, path |-> targetChildKeys]
        ELSE IF underOpts # Null THEN [node |-> underOpts, path |-> <<"opts", targetKey>>]
        ELSE IF sameKey # Null THEN [node |-> sameKey, path |-> <<targetKey>>]
        ELSE [node |-> Null, path |-> targetChildKeys]

RECURSIVE SyncAllPluginsLevels(_, _, _, _)
SyncAllPluginsLevels(node, parentPath, containerIndex, childData) ==
    LET isSibling == /\ node.path # <<>>
                     /\ node.path[1] = "plugins"
                     /\ Len(node.path) = Len(parentPath)
                     /\ node.path # parentPath
        found == CorrespondingChild(node, childData.childPath)
        syncChildData ==
            [childPath |-> found.path,
             childKey |-> IF found.path = <<>> THEN Undefined
                          ELSE found.path[Len(found.path)],
             childValue |-> found.node.value,
             displayText |-> DisplayText(IF found.path = <<>> THEN Undefined
                                         ELSE found.path[Len(found.path)],
                                         found.node.value, "json")]
        synced == IF isSibling /\ found.node # Null
                  THEN [node EXCEPT !.parentDisplayConfig =
                            PutSlot(node.parentDisplayConfig, containerIndex, syncChildData)]
                  ELSE node
    IN  IF synced.children.kind = "none" THEN synced
        ELSE [synced EXCEPT !.children.n =
                 [i \in 1..Len(synced.children.n) |->
                     IF synced.children.n[i] = HoleNode THEN HoleNode
                     ELSE SyncAllPluginsLevels(synced.children.n[i], parentPath,
                                               containerIndex, childData)]]

RECURSIVE RemoveNodeConfig(_, _, _)
RemoveNodeConfig(node, targetPath, containerIndex) ==
    IF node.path = targetPath /\ node.parentDisplayConfig.has
    THEN [node EXCEPT !.parentDisplayConfig =
              [has |-> TRUE,
               selectedChildren |->
                   SelectSeq(node.parentDisplayConfig.selectedChildren,
                             LAMBDA item : item.containerIndex # containerIndex)]]
    ELSE IF node.children.kind = "none" THEN node
    ELSE [node EXCEPT !.children.n =
              [i \in 1..Len(node.children.n) |->
                  IF node.children.n[i] = HoleNode THEN HoleNode
                  ELSE RemoveNodeConfig(node.children.n[i], targetPath, containerIndex)]]

RECURSIVE PreserveParentDisplayConfig(_, _)
PreserveParentDisplayConfig(oldNode, newNode) ==
    IF ~IsNode(oldNode) THEN newNode
    ELSE LET kept == IF oldNode.path = newNode.path /\ oldNode.parentDisplayConfig.has
                     THEN [newNode EXCEPT !.parentDisplayConfig =
                               oldNode.parentDisplayConfig]
                     ELSE newNode
             old == oldNode.children.n
         IN  IF kept.children.kind = "array" /\ oldNode.children.kind = "array"
             THEN [kept EXCEPT !.children.n =
                      [i \in 1..Len(kept.children.n) |->
                          IF kept.children.n[i] = HoleNode THEN HoleNode
                          ELSE PreserveParentDisplayConfig(
                                   IF i <= Len(old) THEN old[i] ELSE Null,
                                   kept.children.n[i])]]
             ELSE IF kept.children.kind = "object" /\ oldNode.children.kind = "object"
             THEN [kept EXCEPT !.children.n =
                      [i \in 1..Len(kept.children.n) |->
                          PreserveParentDisplayConfig(
                              ChildByKey(oldNode, kept.children.n[i].key),
                              kept.children.n[i])]]
             ELSE kept

RECURSIVE NodeAt(_, _)
\* The node of a tree at a path, Null when there is none.
NodeAt(node, path) ==
    IF ~IsNode(node) THEN Null
    ELSE IF path = <<>> THEN node
    ELSE LET at == {i \in 1..Len(node.children.n) :
                       /\ node.children.n[i] # HoleNode
                       /\ node.children.n[i].key = Head(path)}
         IN  IF at = {} THEN Null
             ELSE NodeAt(node.children.n[CHOOSE i \in at : TRUE], Tail(path))

RECURSIVE NodePaths(_)
\* The paths of the nodes of a tree.
NodePaths(node) ==
    IF ~IsNode(node) THEN {}
    ELSE {node.path} \cup
         UNION {NodePaths(node.children.n[i]) : i \in 1..Len(node.children.n)}

(***************************************************************************)
(* JSON.parse(text) succeeds, for the texts of the model: a literal, a     *)
(* number or a quoted string without a quote inside, spaces around it.     *)
(***************************************************************************)
IsJsonNumber(s) ==
    LET body == IF s # <<>> /\ Head(s) = "-" THEN Tail(s) ELSE s
        dots == {d \in 1..Len(body) : body[d] = "."}
        d == IF dots = {} THEN Len(body) + 1 ELSE CHOOSE x \in dots : TRUE
        int == SubSeq(body, 1, d - 1)
    IN  /\ MatchesNumber(s)
        /\ Len(int) = 1 \/ int[1] # "0"

IsJsonText(s) ==
    LET text == Trim(s)
    IN  \/ text \in {TextNull, TextTrue, TextFalse}
        \/ IsJsonNumber(text)
        \/ /\ Len(text) >= 2
           /\ text[1] = Quote /\ text[Len(text)] = Quote
           /\ \A i \in 2..(Len(text) - 1) : text[i] # Quote

\* The jsonData updateJsonData sets for a content.
JsonDataOf(content) ==
    IF IsNullish(content) THEN Null
    ELSE IF content.t = "string" /\ ~IsJsonText(content.s) THEN Null
    ELSE CreateJsonNode(content, "root", <<>>)

\* The displayJsonData updateDisplayJsonData sets for a display content.
DisplayJsonDataOf(content) ==
    IF ~Truthy(content) THEN Null
    ELSE CreateJsonNode(content, "root", <<>>)

(***************************************************************************)
(* updatePluginsOrder                                                      *)
(***************************************************************************)
\* The own enumerable properties an object spread copies.
SpreadEntries(v) ==
    CASE v.t = "object" -> v.e
      [] v.t = "array" ->
            LET filled == SelectSeq([i \in 1..Len(v.e) |->
                                        Entry(IndexToString(i - 1), v.e[i])],
                                    LAMBDA en : en.v # Undefined)
            IN  filled \o v.x
      [] v.t = "string" ->
            [i \in 1..Len(v.s) |-> Entry(IndexToString(i - 1), Str(<<v.s[i]>>))]
      [] OTHER -> <<>>

\* The entries of newPlugins after the forEach over newOrder.
RECURSIVE NewPlugins(_, _)
NewPlugins(oldPlugins, newOrder) ==
    IF newOrder = <<>> THEN <<>>
    ELSE LET before == NewPlugins(oldPlugins, Front(newOrder))
             pluginName == Last(newOrder)
         IN  IF Truthy(GetProp(oldPlugins, pluginName))
             THEN EntryPut(before, pluginName, GetProp(oldPlugins, pluginName))
             ELSE before

\* { ...content, plugins: newPlugins }
WithPlugins(content, newPlugins) ==
    Obj(EntryPut(SpreadEntries(content), "plugins", Obj(newPlugins)))

(***************************************************************************)
(* The editor store                                                        *)
(***************************************************************************)
PathIdle ==
    /\ pOp = "idle"
    /\ pRoot = Undefined /\ pPath = <<>> /\ pVal = Undefined /\ pKey = ""
    /\ pRet = Undefined /\ pArg = Undefined

CoerceIdle ==
    /\ cOp = "idle" /\ cText = <<>> /\ cRet = Undefined

NoOp == [op |-> "none"]

NoneUsed == [edits |-> 0, reorders |-> 0, configs |-> 0, applies |-> 0, presets |-> 0]

\* lastUsedPresetId when it is undefined; the ids of presets are positive.
NoPresetId == 0

(***************************************************************************)
(* The file service.  A path is the sequence of its segments, a segment    *)
(* the sequence of its characters; the path string, which the containment  *)
(* test reads, is each segment after a "/".  A file name is relative to    *)
(* the root or absolute.                                                   *)
(***************************************************************************)
DotDot == <<".", ".">>

Dot == <<".">>

\* PROJECT_ROOT: /r/a
PROJECT_ROOT == <<<<"r">>, <<"a">>>>

RECURSIVE PathString(_)
PathString(segments) ==
    IF segments = <<>> THEN <<>>
    ELSE PathString(Front(segments)) \o <<"/">> \o Last(segments)

\* String.prototype.startsWith
StartsWith(text, prefix) ==
    Len(prefix) <= Len(text) /\ SubSeq(text, 1, Len(prefix)) = prefix

RECURSIVE NormalizeSegments(_)
\* The segments of a normalized absolute path: `.` dropped, `..` one up.
NormalizeSegments(segments) ==
    IF segments = <<>> THEN <<>>
    ELSE LET before == NormalizeSegments(Front(segments))
         IN  IF Last(segments) = Dot THEN before
             ELSE IF Last(segments) = DotDot
             THEN (IF before = <<>> THEN <<>> ELSE Front(before))
             ELSE Append(before, Last(segments))

\* path.resolve(PROJECT_ROOT, filename)
Resolve(filename) ==
    NormalizeSegments(IF filename.absolute THEN filename.segments
                      ELSE PROJECT_ROOT \o filename.segments)

\* safePath.startsWith(PROJECT_ROOT)
IsSafePath(safePath) == StartsWith(PathString(safePath), PathString(PROJECT_ROOT))

\* fs.pathExists: a file, or a directory some file is in
PathExists(path) ==
    \E file \in DOMAIN disk :
        Len(path) <= Len(file) /\ SubSeq(file, 1, Len(path)) = path

\* The files on disk at the start: one in the root, one beside the root and
\* one in a directory beside the root whose name begins with the root's.
FileIdle ==
    disk = [file \in {<<<<"r">>, <<"a">>, <<"f">>>>,
                      <<<<"r">>, <<"f">>>>,
                      <<<<"r">>, <<"a", "b">>, <<"f">>>>} |-> "old"]

\* No request was ever issued; the file store holds nothing the editor has
\* asked for.
AsyncIdle ==
    /\ persisted = <<>>
    /\ pending = {}
    /\ issued = 0
    /\ syncedContent = Null
    /\ latestLoad = [id |-> 0, filename |-> "", outcome |-> "none", content |-> Null]

\* fileApi.readFile is not running.
RetryIdle == retry = [phase |-> "idle"]

\* loadFromStorage with nothing stored
PresetIdle ==
    /\ storage = [presets |-> <<>>, lastUsedPresetId |-> NoPresetId,
                  autoApplyLastUsed |-> TRUE]
    /\ idsIssued = 0
    /\ captured = <<>>

\* create<EditorStore>: the initial state
StoreIdle ==
    /\ currentFile = Null
    /\ jsonContent = Null
    /\ originalJsonContent = Null
    /\ displayJsonContent = Null
    /\ jsonData = Null
    /\ displayJsonData = Null
    /\ isModified = FALSE
    /\ globalSelectedContainerType = Null
    /\ sameObject = {}
    /\ lastOp = NoOp
    /\ loadedContent = Null
    /\ savedSinceLoad = FALSE
    /\ used = NoneUsed

\* Bounds of the store runs: operations of each kind after a load, and slots.
MaxEdits == 1

MaxReorders == 1

MaxConfigs == 1

MaxSlot == 1

\* presets the manager stores, and presets applied after a load
MaxPresets == 1

MaxApplies == 1

K1 == Obj(<<Entry("k", Num(1))>>)

K2 == Obj(<<Entry("k", Num(2))>>)

Files == {"a.json", "b.json"}

\* What fileApi.readFile resolves to for each file.
FileContent(filename) ==
    IF filename = "a.json"
    THEN Obj(<<Entry("plugins",
                     Obj(<<Entry("a", Obj(<<Entry("opts", K1)>>)),
                           Entry("b", K2),
                           Entry("c", Num(0))>>)),
               Entry("name", Str(<<"x">>))>>)
    ELSE Obj(<<Entry("plugins",
                     Obj(<<Entry("a", Obj(<<Entry("0", K1)>>)),
                           Entry("b", Arr(<<K2>>))>>))>>)

EditPaths == {<<>>, <<"name">>, <<"plugins", "a">>, <<"plugins", "c">>}

EditValues == {Num(7), Arr(<<K1>>)}

AddPaths == {<<>>, <<"plugins", "b">>}

AddKeys == {"", "d"}

AddValues == {Num(0), EmptyObj}

NewOrders == {<<"b", "a">>, <<"c", "b", "a">>, <<"a", "z">>, <<"b", "b">>}

ConfigPaths == {<<>>, <<"plugins", "a">>, <<"plugins", "b">>, <<"plugins", "a", "0">>}

ChildPaths == {<<"k">>, <<"opts", "k">>, <<"0", "k">>, <<"name">>}

RemovePaths == {<<"plugins", "a">>}

\* The key the selection modal shows for an option: the property name of an
\* object's child, `[index]` for an array's element.
OptionKey(content, parentPath, childPath) ==
    IF GetValueByPath(content, parentPath \o Front(childPath)).t = "array"
    THEN [index |-> Last(childPath)]
    ELSE Last(childPath)

\* The childData of a child of the node at parentPath.  fromRoot: what the
\* tree component passes, the option's path (the dotted path from the root,
\* here its segments) with value, type and display text.  Otherwise what the
\* store's interface declares, the path relative to the parent with
\* childKey, childValue and display text.
ChildData(content, parentPath, childPath, fromRoot) ==
    LET value == GetValueByPath(content, parentPath \o childPath)
    IN  IF fromRoot
        THEN [childPath |-> parentPath \o childPath,
              value |-> value,
              type |-> GetJsonValueType(value),
              displayText |-> DisplayText(OptionKey(content, parentPath, childPath),
                                          value, "display")]
        ELSE [childPath |-> childPath,
              childKey |-> Last(childPath),
              childValue |-> value,
              displayText |-> DisplayText(Last(childPath), value, "display")]

\* The store's fields other than the record of the last operation.
storeFields ==
    <<currentFile, jsonContent, originalJsonContent, displayJsonContent,
      jsonData, displayJsonData, isModified, globalSelectedContainerType,
      sameObject, loadedContent, savedSinceLoad, used, limits>>

\* The operations of each bounded kind a run of the editor allows.
EditorLimits ==
    [edits |-> MaxEdits, reorders |-> MaxReorders, configs |-> MaxConfigs,
     applies |-> 0, presets |-> 0]

Init ==
    /\ StoreIdle
    /\ limits = EditorLimits
    /\ PresetIdle
    /\ FileIdle
    /\ AsyncIdle
    /\ RetryIdle
    /\ PathIdle
    /\ CoerceIdle

\* The try branch of loadFile once fileApi.readFile has resolved to content.
FileLoaded(filename, content) ==
    LET displayContent == JsonClone(content)
    IN  /\ currentFile' = Str(filename)
        /\ jsonContent' = content
        /\ originalJsonContent' = content
        /\ displayJsonContent' = displayContent
        /\ isModified' = FALSE
        /\ jsonData' = JsonDataOf(content)
        /\ displayJsonData' = DisplayJsonDataOf(displayContent)
        /\ sameObject' = {"originalJsonContent"}
        /\ lastOp' = [op |-> "loadFile", filename |-> filename]
        /\ loadedContent' = content
        /\ savedSinceLoad' = FALSE
        /\ used' = NoneUsed
        /\ UNCHANGED <<globalSelectedContainerType, limits, presetVars, pathVars, coerceVars, fileVars, retryVars>>

LoadFile(filename) == FileLoaded(filename, FileContent(filename)) /\ UNCHANGED asyncVars

\* fileApi.readFile rejects: the catch branch.
FileNotLoaded(filename) ==
    /\ currentFile' = Null
    /\ jsonContent' = Null
    /\ originalJsonContent' = Null
    /\ displayJsonContent' = Null
    /\ jsonData' = Null
    /\ displayJsonData' = Null
    /\ sameObject' = {}
    /\ lastOp' = [op |-> "loadFileFailed", filename |-> filename]
    /\ loadedContent' = Null
    /\ savedSinceLoad' = FALSE
    /\ used' = NoneUsed
    /\ UNCHANGED <<isModified, globalSelectedContainerType, limits, presetVars, pathVars, coerceVars, fileVars, retryVars>>

LoadFileFailed(filename) == FileNotLoaded(filename) /\ UNCHANGED asyncVars

\* fileApi.saveFile has resolved: set({isModified: false}).
FileSaved ==
    /\ isModified' = FALSE
    /\ lastOp' = [op |-> "saveCurrentFile"]
    /\ savedSinceLoad' = TRUE
    /\ UNCHANGED <<currentFile, jsonContent, originalJsonContent, displayJsonContent,
                   jsonData, displayJsonData, globalSelectedContainerType, sameObject,
                   loadedContent, used, limits, presetVars, pathVars, coerceVars, fileVars, retryVars>>

SaveCurrentFile ==
    /\ currentFile # Null
    /\ Truthy(jsonContent)
    /\ FileSaved
    /\ UNCHANGED asyncVars

\* set({jsonContent: newContent, isModified: true}); updateJsonData(), for
\* the result r of the path function. The fields that hold the argument
\* object see what the call did to it.
Edited(r, keepsObject, op) ==
    /\ used.edits < limits.edits
    /\ r.ret # Throw
    /\ jsonContent' = r.ret
    /\ originalJsonContent' =
           IF "originalJsonContent" \in sameObject THEN r.arg ELSE originalJsonContent
    /\ displayJsonContent' =
           IF "displayJsonContent" \in sameObject THEN r.arg ELSE displayJsonContent
    /\ sameObject' = IF keepsObject THEN sameObject ELSE {}
    /\ isModified' = TRUE
    /\ jsonData' = JsonDataOf(r.ret)
    /\ lastOp' = op
    /\ used' = [used EXCEPT !.edits = @ + 1]
    /\ UNCHANGED <<currentFile, displayJsonData, globalSelectedContainerType,
                   loadedContent, savedSinceLoad, limits, presetVars, pathVars, coerceVars, fileVars, asyncVars, retryVars>>

UpdateJsonValue(path, value) ==
    /\ Truthy(jsonContent)
    /\ Edited(SetValueByPath(jsonContent, path, value), FALSE,
              [op |-> "updateJsonValue", path |-> path, value |-> value])

AddJsonProperty(path, key, value) ==
    /\ Truthy(jsonContent)
    /\ Edited(SetValueByPath(jsonContent, Append(path, key), value), FALSE,
              [op |-> "addJsonProperty", path |-> Append(path, key), value |-> value])

DeleteJsonProperty(path) ==
    /\ Truthy(jsonContent)
    /\ Edited(DeleteValueByPath(jsonContent, path), path = <<>>,
              [op |-> "deleteJsonProperty", path |-> path])

\* updateDisplayJsonData run on the display content read before the set.
ResetDisplayToOriginal_StaleDisplayTree ==
    /\ Truthy(originalJsonContent)
    /\ LET copy == JsonClone(originalJsonContent)
       IN  /\ copy # Throw
           /\ displayJsonContent' = copy
           /\ jsonContent' = copy
           /\ displayJsonData' = DisplayJsonDataOf(displayJsonContent)
    /\ sameObject' = {"displayJsonContent"}
    /\ lastOp' = [op |-> "resetDisplayToOriginal",
                 again |-> lastOp.op = "resetDisplayToOriginal"]
    /\ UNCHANGED <<currentFile, originalJsonContent, jsonData, isModified,
                   globalSelectedContainerType, loadedContent, savedSinceLoad, used,
                   limits, presetVars, pathVars, coerceVars, fileVars, asyncVars, retryVars>>

ResetDisplayToOriginal ==
    /\ Truthy(originalJsonContent)
    /\ LET copy == JsonClone(originalJsonContent)
       IN  /\ copy # Throw
           /\ displayJsonContent' = copy
           /\ jsonContent' = copy
           /\ displayJsonData' = DisplayJsonDataOf(copy)
    /\ sameObject' = {"displayJsonContent"}
    /\ lastOp' = [op |-> "resetDisplayToOriginal",
                 again |-> lastOp.op = "resetDisplayToOriginal"]
    /\ UNCHANGED <<currentFile, originalJsonContent, jsonData, isModified,
                   globalSelectedContainerType, loadedContent, savedSinceLoad, used,
                   limits, presetVars, pathVars, coerceVars, fileVars, asyncVars, retryVars>>

\* The state fields updatePluginsOrder(newOrder) sets; when it returns at
\* once, the fields as they are.
Reordered(newOrder) ==
    IF ~(Truthy(jsonContent) /\ Truthy(GetProp(jsonContent, "plugins")))
    THEN [done |-> FALSE,
          jsonContent |-> jsonContent,
          originalJsonContent |-> originalJsonContent,
          displayJsonContent |-> displayJsonContent,
          jsonData |-> jsonData,
          displayJsonData |-> displayJsonData]
    ELSE LET oldPlugins == GetProp(jsonContent, "plugins")
             newPlugins == NewPlugins(oldPlugins, newOrder)
             updatedJsonContent == WithPlugins(jsonContent, newPlugins)
             updatedDisplayContent == WithPlugins(displayJsonContent, newPlugins)
             newJsonNode == CreateJsonNode(updatedJsonContent, "root", <<>>)
             newDisplayJsonNode == CreateJsonNode(updatedDisplayContent, "root", <<>>)
         IN  [done |-> TRUE,
              jsonContent |-> updatedJsonContent,
              originalJsonContent |-> WithPlugins(originalJsonContent, newPlugins),
              displayJsonContent |-> updatedDisplayContent,
              jsonData |-> PreserveParentDisplayConfig(jsonData, newJsonNode),
              displayJsonData |->
                  PreserveParentDisplayConfig(displayJsonData, newDisplayJsonNode)]

UpdatePluginsOrder(newOrder) ==
    /\ used.reorders < limits.reorders
    /\ Reordered(newOrder).done
    /\ jsonContent' = Reordered(newOrder).jsonContent
    /\ originalJsonContent' = Reordered(newOrder).originalJsonContent
    /\ displayJsonContent' = Reordered(newOrder).displayJsonContent
    /\ jsonData' = Reordered(newOrder).jsonData
    /\ displayJsonData' = Reordered(newOrder).displayJsonData
    /\ isModified' = TRUE
    /\ sameObject' = {}
    /\ lastOp' = [op |-> "updatePluginsOrder", newOrder |-> newOrder]
    /\ used' = [used EXCEPT !.reorders = @ + 1]
    /\ UNCHANGED <<currentFile, globalSelectedContainerType, loadedContent,
                   savedSinceLoad, limits, presetVars, pathVars, coerceVars, fileVars, asyncVars, retryVars>>

\* The sibling synchronization applied to jsonData as well.
SetParentDisplayConfig_SyncsJsonData(parentPath, containerIndex, childData) ==
    /\ used.configs < limits.configs
    /\ jsonData # Null
    /\ LET isPluginsPath == parentPath # <<>> /\ parentPath[1] = "plugins"
           updatedJsonData ==
               UpdateNodeConfig(jsonData, parentPath, containerIndex, childData)
           updatedDisplayData ==
               IF displayJsonData = Null THEN Null
               ELSE UpdateNodeConfig(displayJsonData, parentPath, containerIndex, childData)
       IN  /\ jsonData' =
                  IF isPluginsPath
                  THEN SyncAllPluginsLevels(updatedJsonData, parentPath,
                                            containerIndex, childData)
                  ELSE updatedJsonData
           /\ displayJsonData' =
                  IF isPluginsPath /\ displayJsonData # Null
                  THEN SyncAllPluginsLevels(updatedDisplayData, parentPath,
                                            containerIndex, childData)
                  ELSE updatedDisplayData
    /\ globalSelectedContainerType' =
           IF parentPath # <<>> /\ parentPath[1] = "plugins"
           THEN [containerIndex |-> containerIndex,
                 childKey |-> IF childData.childPath = <<>> THEN Undefined
                              ELSE Last(childData.childPath),
                 childType |-> "string"]
           ELSE globalSelectedContainerType
    /\ isModified' = TRUE
    /\ lastOp' = [op |-> "setParentDisplayConfig", path |-> parentPath,
                  containerIndex |-> containerIndex, childData |-> childData]
    /\ used' = [used EXCEPT !.configs = @ + 1]
    /\ UNCHANGED <<currentFile, jsonContent, originalJsonContent, displayJsonContent,
                   sameObject, loadedContent, savedSinceLoad, limits, presetVars, pathVars, coerceVars, fileVars, asyncVars, retryVars>>

SetParentDisplayConfig(parentPath, containerIndex, childData) ==
    /\ used.configs < limits.configs
    /\ jsonData # Null
    /\ LET isPluginsPath == parentPath # <<>> /\ parentPath[1] = "plugins"
           updatedJsonData ==
               UpdateNodeConfig(jsonData, parentPath, containerIndex, childData)
           updatedDisplayData ==
               IF displayJsonData = Null THEN Null
               ELSE UpdateNodeConfig(displayJsonData, parentPath, containerIndex, childData)
       IN  /\ jsonData' = updatedJsonData
           /\ displayJsonData' =
                  IF isPluginsPath /\ displayJsonData # Null
                  THEN SyncAllPluginsLevels(updatedDisplayData, parentPath,
                                            containerIndex, childData)
                  ELSE updatedDisplayData
    /\ globalSelectedContainerType' =
           IF parentPath # <<>> /\ parentPath[1] = "plugins"
           THEN [containerIndex |-> containerIndex,
                 childKey |-> IF childData.childPath = <<>> THEN Undefined
                              ELSE Last(childData.childPath),
                 childType |-> "string"]
           ELSE globalSelectedContainerType
    /\ isModified' = TRUE
    /\ lastOp' = [op |-> "setParentDisplayConfig", path |-> parentPath,
                  containerIndex |-> containerIndex, childData |-> childData]
    /\ used' = [used EXCEPT !.configs = @ + 1]
    /\ UNCHANGED <<currentFile, jsonContent, originalJsonContent, displayJsonContent,
                   sameObject, loadedContent, savedSinceLoad, limits, presetVars, pathVars, coerceVars, fileVars, asyncVars, retryVars>>

RemoveParentDisplayConfig(parentPath, containerIndex) ==
    /\ used.configs < limits.configs
    /\ jsonData # Null
    /\ jsonData' = RemoveNodeConfig(jsonData, parentPath, containerIndex)
    /\ lastOp' = [op |-> "removeParentDisplayConfig", path |-> parentPath,
                  containerIndex |-> containerIndex]
    /\ used' = [used EXCEPT !.configs = @ + 1]
    /\ UNCHANGED <<currentFile, jsonContent, originalJsonContent, displayJsonContent,
                   displayJsonData, isModified, globalSelectedContainerType, sameObject,
                   loadedContent, savedSinceLoad, limits, presetVars, pathVars, coerceVars, fileVars, asyncVars, retryVars>>

\* A descendant the selection modal can offer under the node at parentPath.
IsOption(parentPath, childPath) ==
    /\ Truthy(displayJsonContent)
    /\ GetValueByPath(displayJsonContent, parentPath \o childPath) \notin {Undefined, Throw}

\* The tree component: the user picks a child in the selection modal.
HandleChildSelect(parentPath, containerIndex, childPath) ==
    /\ IsOption(parentPath, childPath)
    /\ SetParentDisplayConfig(parentPath, containerIndex,
           ChildData(displayJsonContent, parentPath, childPath, TRUE))

\* A caller of the store that passes the childData its interface declares.
CallSetParentDisplayConfig(parentPath, containerIndex, childPath) ==
    /\ IsOption(parentPath, childPath)
    /\ SetParentDisplayConfig(parentPath, containerIndex,
           ChildData(displayJsonContent, parentPath, childPath, FALSE))

Next ==
    \/ \E filename \in Files : LoadFile(filename)
    \/ \E filename \in Files : LoadFileFailed(filename)
    \/ SaveCurrentFile
    \/ \E path \in EditPaths, value \in EditValues : UpdateJsonValue(path, value)
    \/ \E path \in AddPaths, key \in AddKeys, value \in AddValues :
           AddJsonProperty(path, key, value)
    \/ \E path \in EditPaths : DeleteJsonProperty(path)
    \/ ResetDisplayToOriginal
    \/ \E newOrder \in NewOrders : UpdatePluginsOrder(newOrder)
    \/ \E parentPath \in ConfigPaths, containerIndex \in 0..MaxSlot,
          childPath \in ChildPaths :
           HandleChildSelect(parentPath, containerIndex, childPath)
    \/ \E parentPath \in ConfigPaths, containerIndex \in 0..MaxSlot,
          childPath \in ChildPaths :
           CallSetParentDisplayConfig(parentPath, containerIndex, childPath)
    \/ \E parentPath \in RemovePaths, containerIndex \in 0..MaxSlot :
           RemoveParentDisplayConfig(parentPath, containerIndex)

Spec == Init /\ [][Next]_vars

(***************************************************************************)
(* Presets: the preset manager's storage and the store's savePreset and    *)
(* applyPreset.  A preset is its id, name, description, pluginOrder and    *)
(* parentDisplayConfigs; parentDisplayConfigs, an object keyed by the      *)
(* serialized node path, is the sequence of its entries in insertion order *)
(* (the empty sequence for a preset without any).  Time stamps, fileHash   *)
(* and expandedNodes are not part of the model.                            *)
(***************************************************************************)
\* The entry savePreset and applyPreset copy: five named properties.
SavedEntry(child) ==
    [containerIndex |-> child.containerIndex,
     childPath |-> Field(child, "childPath"),
     childKey |-> Field(child, "childKey"),
     childValue |-> Field(child, "childValue"),
     displayText |-> Field(child, "displayText")]

SavedEntries(selectedChildren) ==
    [i \in 1..Len(selectedChildren) |-> SavedEntry(selectedChildren[i])]

RECURSIVE CollectParentDisplayConfigs(_)
RECURSIVE CollectChildren(_, _)
\* collectParentDisplayConfigs(node): the configurations of the nodes with
\* at least one entry, the node before its children.
CollectParentDisplayConfigs(node) ==
    LET own == IF node.parentDisplayConfig.has /\ node.parentDisplayConfig.selectedChildren # <<>>
               THEN <<[path |-> node.path,
                       selectedChildren |->
                           SavedEntries(node.parentDisplayConfig.selectedChildren)]>>
               ELSE <<>>
    IN  own \o CollectChildren(node.children.n, 1)

CollectChildren(children, i) ==
    IF i > Len(children) THEN <<>>
    ELSE (IF children[i] = HoleNode THEN <<>>
          ELSE CollectParentDisplayConfigs(children[i]))
         \o CollectChildren(children, i + 1)

\* Object.keys(jsonContent.plugins)
PluginOrderOf(content) ==
    LET entries == SpreadEntries(GetProp(content, "plugins"))
    IN  [i \in 1..Len(entries) |-> entries[i].k]

\* presetManager.savePreset pushing the preset before it validates.
SavePresetResult_PushesFirst(name, description, pluginOrder, parentDisplayConfigs) ==
    LET newPreset == [id |-> idsIssued + 1,
                      name |-> Trim(name),
                      description |-> Trim(description),
                      pluginOrder |-> pluginOrder,
                      parentDisplayConfigs |-> parentDisplayConfigs]
        pushed == [storage EXCEPT !.presets = Append(@, newPreset)]
        failed(message) == [success |-> FALSE, message |-> message,
                            storage |-> pushed, idsIssued |-> idsIssued + 1]
    IN  IF Trim(name) = <<>> THEN failed("empty name")
        ELSE IF pluginOrder = <<>> THEN failed("empty plugin order")
        ELSE IF \E i \in 1..Len(storage.presets) : storage.presets[i].name = Trim(name)
        THEN failed("name exists")
        ELSE [success |-> TRUE, message |-> "saved",
              storage |-> pushed, idsIssued |-> idsIssued + 1]

\* presetManager.savePreset: the result and the storage after the call.
SavePresetResult(name, description, pluginOrder, parentDisplayConfigs) ==
    LET newPreset == [id |-> idsIssued + 1,
                      name |-> Trim(name),
                      description |-> Trim(description),
                      pluginOrder |-> pluginOrder,
                      parentDisplayConfigs |-> parentDisplayConfigs]
        failed(message) == [success |-> FALSE, message |-> message,
                            storage |-> storage, idsIssued |-> idsIssued]
    IN  IF Trim(name) = <<>> THEN failed("empty name")
        ELSE IF pluginOrder = <<>> THEN failed("empty plugin order")
        ELSE IF \E i \in 1..Len(storage.presets) : storage.presets[i].name = Trim(name)
        THEN failed("name exists")
        ELSE [success |-> TRUE, message |-> "saved",
              storage |-> [storage EXCEPT !.presets = Append(@, newPreset)],
              idsIssued |-> idsIssued + 1]

\* this.storage.presets.find(p => p.id === presetId), Null when none
FindPreset(presetId) ==
    LET at == {i \in 1..Len(storage.presets) : storage.presets[i].id = presetId}
    IN  IF at = {} THEN Null
        ELSE storage.presets[CHOOSE i \in at : \A j \in at : i <= j]

\* preset.parentDisplayConfigs?.[pathKey], Null when none
SavedConfig(configs, path) ==
    LET at == {i \in 1..Len(configs) : configs[i].path = path}
    IN  IF at = {} THEN Null ELSE configs[CHOOSE i \in at : TRUE]

RECURSIVE RestoreParentDisplayConfigs(_, _)
RestoreParentDisplayConfigs(node, configs) ==
    LET restored ==
            IF SavedConfig(configs, node.path) # Null
            THEN [node EXCEPT !.parentDisplayConfig =
                     [has |-> TRUE,
                      selectedChildren |->
                          SavedEntries(SavedConfig(configs, node.path).selectedChildren)]]
            ELSE node
    IN  IF restored.children.kind = "none" THEN restored
        ELSE [restored EXCEPT !.children.n =
                 [i \in 1..Len(restored.children.n) |->
                     IF restored.children.n[i] = HoleNode THEN HoleNode
                     ELSE RestoreParentDisplayConfigs(restored.children.n[i], configs)]]

RECURSIVE SyncSavedEntries(_, _, _)
\* syncToPluginsLevel for each saved entry of one source path, in order
SyncSavedEntries(node, sourcePath, entries) ==
    IF entries = <<>> THEN node
    ELSE SyncSavedEntries(
             SyncAllPluginsLevels(node, sourcePath, Head(entries).containerIndex,
                 [childPath |-> Head(entries).childPath]),
             sourcePath, Tail(entries))

RECURSIVE SyncSavedConfigs(_, _)
\* applyPreset's synchronization: every saved configuration under plugins,
\* in the order of the saved object's keys
SyncSavedConfigs(node, configs) ==
    IF configs = <<>> THEN node
    ELSE SyncSavedConfigs(
             IF Head(configs).path # <<>> /\ Head(configs).path[1] = "plugins"
             THEN SyncSavedEntries(node, Head(configs).path, Head(configs).selectedChildren)
             ELSE node,
             Tail(configs))

\* The slot entries of a tree by node path, each entry as a preset keeps it.
SlotEntriesByPath(tree) ==
    {[path |-> path,
      entries |-> {SavedEntry(NodeAt(tree, path).parentDisplayConfig.selectedChildren[i]) :
                      i \in 1..Len(NodeAt(tree, path).parentDisplayConfig.selectedChildren)}] :
        path \in {q \in NodePaths(tree) :
                     NodeAt(tree, q).parentDisplayConfig.selectedChildren # <<>>}}

\* Preset names and ids the runs use.
PresetNames == {<<>>, <<"p">>}

PresetIds == 1..(MaxPresets + 1)

\* The store's savePreset(name, ''): throws without plugins or when the
\* manager rejects the preset.
SavePreset(name) ==
    /\ Len(storage.presets) < limits.presets
    /\ IF ~(Truthy(jsonContent) /\ Truthy(GetProp(jsonContent, "plugins")))
       THEN /\ lastOp' = [op |-> "savePreset", name |-> name, thrown |-> TRUE]
            /\ UNCHANGED presetVars
       ELSE LET result == SavePresetResult(
                              name, <<>>, PluginOrderOf(jsonContent),
                              IF jsonData = Null THEN <<>>
                              ELSE CollectParentDisplayConfigs(jsonData))
            IN  /\ storage' = result.storage
                /\ idsIssued' = result.idsIssued
                /\ captured' =
                       IF result.success
                       THEN captured @@
                            (result.idsIssued :>
                                [pluginOrder |-> PluginOrderOf(jsonContent),
                                 slots |-> SlotEntriesByPath(displayJsonData)])
                       ELSE captured
                /\ lastOp' = [op |-> "savePreset", name |-> name,
                              thrown |-> ~result.success]
    /\ UNCHANGED <<currentFile, jsonContent, originalJsonContent, displayJsonContent,
                   jsonData, displayJsonData, isModified, globalSelectedContainerType,
                   sameObject, loadedContent, savedSinceLoad, used, limits,
                   pathVars, coerceVars, fileVars, asyncVars, retryVars>>

\* The store's applyPreset(presetId): throws when the manager has no such
\* preset.
ApplyPreset(presetId) ==
    /\ used.applies < limits.applies
    /\ IF FindPreset(presetId) = Null
       THEN /\ lastOp' = [op |-> "applyPreset", presetId |-> presetId, thrown |-> TRUE]
            /\ UNCHANGED <<jsonContent, originalJsonContent, displayJsonContent,
                           jsonData, displayJsonData, isModified, sameObject, used,
                           storage>>
       ELSE LET preset == FindPreset(presetId)
                reordered == Reordered(preset.pluginOrder)
                configs == preset.parentDisplayConfigs
                restores == reordered.jsonData # Null
            IN  /\ jsonContent' = reordered.jsonContent
                /\ originalJsonContent' = reordered.originalJsonContent
                /\ displayJsonContent' = reordered.displayJsonContent
                /\ isModified' = (reordered.done \/ isModified)
                /\ sameObject' = IF reordered.done THEN {} ELSE sameObject
                /\ jsonData' =
                       IF restores
                       THEN RestoreParentDisplayConfigs(reordered.jsonData, configs)
                       ELSE reordered.jsonData
                /\ displayJsonData' =
                       IF restores /\ reordered.displayJsonData # Null
                       THEN SyncSavedConfigs(
                                RestoreParentDisplayConfigs(reordered.displayJsonData,
                                                            configs),
                                configs)
                       ELSE reordered.displayJsonData
                /\ storage' = [storage EXCEPT !.lastUsedPresetId = presetId]
                /\ used' = [used EXCEPT !.applies = @ + 1]
                /\ lastOp' = [op |-> "applyPreset", presetId |-> presetId,
                              thrown |-> FALSE]
    /\ UNCHANGED <<currentFile, globalSelectedContainerType, loadedContent,
                   savedSinceLoad, limits, idsIssued, captured, pathVars, coerceVars, fileVars, asyncVars, retryVars>>


(***************************************************************************)
(* The preset manager on its own: savePreset, loadPreset, deletePreset,    *)
(* updatePreset and importPresets called with names, ids and data of small *)
(* sets.                                                                   *)
(***************************************************************************)
\* ids the manager generates in a run
MaxIds == 3

PresetLimits ==
    [edits |-> 0, reorders |-> 0, configs |-> 0, applies |-> 0,
     presets |-> MaxPresets + 1]

NameInputs == {<<>>, <<" ">>, <<"p">>, <<"p", " ">>, <<"q">>}

PluginOrderInputs == {<<>>, <<"a">>}

UpdateInputs == {[name |-> name] : name \in NameInputs} \cup {[description |-> <<"d">>]}

ImportedPreset(id, name) ==
    [id |-> id, name |-> name, description |-> <<>>, pluginOrder |-> <<"a">>,
     parentDisplayConfigs |-> <<>>]

\* JSON.parse(data) of the texts a run imports: with a presets array or not.
ImportInputs ==
    {[hasPresetsArray |-> TRUE,
      presets |-> <<ImportedPreset(101, <<"p">>), ImportedPreset(102, <<"p">>)>>,
      lastUsedPresetId |-> 101],
     [hasPresetsArray |-> TRUE,
      presets |-> <<ImportedPreset(101, <<"q">>)>>,
      lastUsedPresetId |-> NoPresetId],
     [hasPresetsArray |-> FALSE, presets |-> <<>>, lastUsedPresetId |-> NoPresetId]}

ManagedIds == (1..MaxIds) \cup {101}

\* Every field of the editor store but lastOp.
PresetInit ==
    /\ StoreIdle
    /\ limits = PresetLimits
    /\ PresetIdle
    /\ FileIdle
    /\ AsyncIdle
    /\ RetryIdle
    /\ PathIdle
    /\ CoerceIdle

\* presetManager.savePreset(name, '', pluginOrder)
ManagerSavePreset(name, pluginOrder) ==
    /\ Len(storage.presets) < limits.presets
    /\ idsIssued < MaxIds
    /\ LET result == SavePresetResult(name, <<>>, pluginOrder, <<>>)
       IN  /\ storage' = result.storage
           /\ idsIssued' = result.idsIssued
           /\ lastOp' = [op |-> "presetManager.savePreset", name |-> name,
                         pluginOrder |-> pluginOrder, success |-> result.success,
                         message |-> result.message]
    /\ UNCHANGED <<storeFields, captured, pathVars, coerceVars, fileVars, asyncVars, retryVars>>

\* presetManager.loadPreset(presetId)
LoadPreset(presetId) ==
    /\ storage' = IF FindPreset(presetId) = Null THEN storage
                  ELSE [storage EXCEPT !.lastUsedPresetId = presetId]
    /\ lastOp' = [op |-> "presetManager.loadPreset", presetId |-> presetId,
                  success |-> FindPreset(presetId) # Null]
    /\ UNCHANGED <<storeFields, idsIssued, captured, pathVars, coerceVars, fileVars, asyncVars, retryVars>>

\* presetManager.deletePreset(presetId)
DeletePreset(presetId) ==
    /\ LET at == {i \in 1..Len(storage.presets) : storage.presets[i].id = presetId}
           index == CHOOSE i \in at : \A j \in at : i <= j
       IN  storage' =
               IF at = {} THEN storage
               ELSE [storage EXCEPT
                        !.presets = SubSeq(@, 1, index - 1) \o SubSeq(@, index + 1, Len(@)),
                        !.lastUsedPresetId = IF @ = presetId THEN NoPresetId ELSE @]
    /\ lastOp' = [op |-> "presetManager.deletePreset", presetId |-> presetId,
                  success |-> FindPreset(presetId) # Null]
    /\ UNCHANGED <<storeFields, idsIssued, captured, pathVars, coerceVars, fileVars, asyncVars, retryVars>>

\* presetManager.updatePreset(presetId, updates)
UpdatePreset(presetId, updates) ==
    /\ LET preset == FindPreset(presetId)
           at == {i \in 1..Len(storage.presets) : storage.presets[i].id = presetId}
           index == CHOOSE i \in at : \A j \in at : i <= j
           nameTaken ==
               /\ "name" \in DOMAIN updates
               /\ updates.name # <<>>
               /\ updates.name # preset.name
               /\ \E i \in 1..Len(storage.presets) :
                      /\ storage.presets[i].name = updates.name
                      /\ storage.presets[i].id # presetId
           assigned == [field \in DOMAIN preset |->
                           IF field \in DOMAIN updates THEN updates[field]
                           ELSE preset[field]]
           success == preset # Null /\ ~nameTaken
       IN  /\ storage' = IF success
                         THEN [storage EXCEPT !.presets[index] = assigned]
                         ELSE storage
           /\ lastOp' = [op |-> "presetManager.updatePreset", presetId |-> presetId,
                         updates |-> updates, success |-> success]
    /\ UNCHANGED <<storeFields, idsIssued, captured, pathVars, coerceVars, fileVars, asyncVars, retryVars>>

\* presetManager.importPresets(data), data the text of `imported`
ImportPresets(imported) ==
    /\ storage' = IF imported.hasPresetsArray
                  THEN [presets |-> imported.presets,
                        lastUsedPresetId |-> imported.lastUsedPresetId,
                        autoApplyLastUsed |-> TRUE]
                  ELSE storage
    /\ lastOp' = [op |-> "presetManager.importPresets",
                  success |-> imported.hasPresetsArray]
    /\ UNCHANGED <<storeFields, idsIssued, captured, pathVars, coerceVars, fileVars, asyncVars, retryVars>>

PresetNext ==
    \/ \E name \in NameInputs, pluginOrder \in PluginOrderInputs :
           ManagerSavePreset(name, pluginOrder)
    \/ \E presetId \in ManagedIds : LoadPreset(presetId)
    \/ \E presetId \in ManagedIds : DeletePreset(presetId)
    \/ \E presetId \in ManagedIds, updates \in UpdateInputs :
           UpdatePreset(presetId, updates)
    \/ \E imported \in ImportInputs : ImportPresets(imported)

PresetSpec == PresetInit /\ [][PresetNext]_vars

Filenames ==
    {[absolute |-> FALSE, segments |-> <<<<"f">>>>],
     [absolute |-> FALSE, segments |-> <<<<"g">>>>],
     [absolute |-> FALSE, segments |-> <<DotDot, <<"f">>>>],
     [absolute |-> FALSE, segments |-> <<DotDot, <<"a", "b">>, <<"f">>>>],
     [absolute |-> FALSE, segments |-> <<Dot, <<"x">>, DotDot, <<"f">>>>],
     [absolute |-> TRUE, segments |-> <<<<"r">>, <<"a", "b">>, <<"g">>>>]}

FileContents == {"new"}

NothingRead == "nothing"

FileInit ==
    /\ StoreIdle
    /\ limits = NoneUsed
    /\ PresetIdle
    /\ FileIdle
    /\ AsyncIdle
    /\ RetryIdle
    /\ PathIdle
    /\ CoerceIdle

\* The outcome of a file operation: what it threw, what it read.
FileOutcome(op, filename, message, read) ==
    [op |-> op, filename |-> filename, thrown |-> message # "", message |-> message,
     read |-> read]

ReadJsonFile(filename) ==
    LET safePath == Resolve(filename)
    IN  /\ lastOp' =
               IF ~IsSafePath(safePath)
               THEN FileOutcome("readJsonFile", filename, "Invalid file path", NothingRead)
               ELSE IF ~PathExists(safePath)
               THEN FileOutcome("readJsonFile", filename, "File not found", NothingRead)
               ELSE IF safePath \notin DOMAIN disk
               THEN FileOutcome("readJsonFile", filename, "EISDIR", NothingRead)
               ELSE FileOutcome("readJsonFile", filename, "", disk[safePath])
        /\ UNCHANGED <<storeFields, presetVars, pathVars, coerceVars, fileVars, asyncVars, retryVars>>

\* fs.writeFile(safePath, ..) after fs.ensureDir of its directory
WriteFile(safePath, content) ==
    [file \in DOMAIN disk \cup {safePath} |->
        IF file = safePath THEN content ELSE disk[file]]

\* saveJsonFile(filename, {content}); the import route calls it with the
\* uploaded file's name.
SaveJsonFile(filename, content) ==
    LET safePath == Resolve(filename)
    IN  /\ IF ~IsSafePath(safePath) \/ (PathExists(safePath) /\ safePath \notin DOMAIN disk)
           THEN /\ lastOp' = FileOutcome("saveJsonFile", filename, "Failed to save file",
                                         NothingRead)
                /\ UNCHANGED disk
           ELSE /\ lastOp' = FileOutcome("saveJsonFile", filename, "", NothingRead)
                /\ disk' = WriteFile(safePath, content)
        /\ UNCHANGED <<storeFields, presetVars, pathVars, coerceVars, asyncVars, retryVars>>

CreateJsonFile(filename, content) ==
    LET safePath == Resolve(filename)
    IN  /\ IF ~IsSafePath(safePath)
           THEN /\ lastOp' = FileOutcome("createJsonFile", filename, "Invalid file path",
                                         NothingRead)
                /\ UNCHANGED disk
           ELSE IF PathExists(safePath)
           THEN /\ lastOp' = FileOutcome("createJsonFile", filename, "File already exists",
                                         NothingRead)
                /\ UNCHANGED disk
           ELSE /\ lastOp' = FileOutcome("createJsonFile", filename, "", NothingRead)
                /\ disk' = WriteFile(safePath, content)
        /\ UNCHANGED <<storeFields, presetVars, pathVars, coerceVars, asyncVars, retryVars>>

\* fs.remove(safePath): the file, or the directory with all that is in it
DeleteJsonFile(filename) ==
    LET safePath == Resolve(filename)
    IN  /\ IF ~IsSafePath(safePath)
           THEN /\ lastOp' = FileOutcome("deleteJsonFile", filename, "Invalid file path",
                                         NothingRead)
                /\ UNCHANGED disk
           ELSE IF ~PathExists(safePath)
           THEN /\ lastOp' = FileOutcome("deleteJsonFile", filename, "File not found",
                                         NothingRead)
                /\ UNCHANGED disk
           ELSE /\ lastOp' = FileOutcome("deleteJsonFile", filename, "", NothingRead)
                /\ disk' = [file \in {f \in DOMAIN disk :
                                         ~(/\ Len(safePath) <= Len(f)
                                           /\ SubSeq(f, 1, Len(safePath)) = safePath)} |->
                               disk[file]]
        /\ UNCHANGED <<storeFields, presetVars, pathVars, coerceVars, asyncVars, retryVars>>

FileNext ==
    \/ \E filename \in Filenames : ReadJsonFile(filename)
    \/ \E filename \in Filenames, content \in FileContents : SaveJsonFile(filename, content)
    \/ \E filename \in Filenames, content \in FileContents :
           CreateJsonFile(filename, content)
    \/ \E filename \in Filenames : DeleteJsonFile(filename)

FileSpec == FileInit /\ [][FileNext]_vars

(***************************************************************************)
(* fileApi.readFile: the attempts of one call.  A fetch is in flight       *)
(* (fetching), or the call sleeps before the next attempt (waiting), or it *)
(* has returned the data or thrown the last error.                         *)
(***************************************************************************)
maxRetries == 3

\* What an attempt throws: the response is not ok, the API reports failure,
\* or the data is null.
ReadErrors == {"HTTP 500", "API failed", "empty"}

ReadData == {K1, K2}

RetryInit ==
    /\ StoreIdle
    /\ limits = NoneUsed
    /\ PresetIdle
    /\ FileIdle
    /\ AsyncIdle
    /\ RetryIdle
    /\ PathIdle
    /\ CoerceIdle

RetryFrame ==
    UNCHANGED <<storeVars, presetVars, pathVars, coerceVars, fileVars, asyncVars>>

\* readFile(filename) is called: the first attempt's fetch goes out.
StartReadFile(filename) ==
    /\ retry.phase \in {"idle", "returned", "thrown"}
    /\ retry' = [phase |-> "fetching", filename |-> filename, attempt |-> 1,
                 outcomes |-> <<>>, waits |-> <<>>, result |-> Undefined]
    /\ RetryFrame

\* The fetch of the running attempt answers with data: return result.data.
AttemptSucceeds(data) ==
    /\ retry.phase = "fetching"
    /\ retry' = [retry EXCEPT !.phase = "returned",
                              !.outcomes = Append(@, [ok |-> TRUE, value |-> data]),
                              !.result = data]
    /\ RetryFrame

\* The running attempt throws: lastError = error, then the sleep of
\* attempt * 1000 ms unless this was the last attempt, after which the
\* loop ends and lastError is thrown.
AttemptFails(error) ==
    /\ retry.phase = "fetching"
    /\ retry' = IF retry.attempt < maxRetries
                THEN [retry EXCEPT !.phase = "waiting",
                                   !.outcomes = Append(@, [ok |-> FALSE, value |-> error])]
                ELSE [retry EXCEPT !.phase = "thrown",
                                   !.outcomes = Append(@, [ok |-> FALSE, value |-> error]),
                                   !.result = error]
    /\ RetryFrame

\* The sleep ends: the next attempt's fetch goes out.
DelayElapsed ==
    /\ retry.phase = "waiting"
    /\ retry' = [retry EXCEPT !.phase = "fetching",
                              !.waits = Append(@, retry.attempt * 1000),
                              !.attempt = @ + 1]
    /\ RetryFrame

RetryNext ==
    \/ \E filename \in Files : StartReadFile(filename)
    \/ \E data \in ReadData : AttemptSucceeds(data)
    \/ \E error \in ReadErrors : AttemptFails(error)
    \/ DelayElapsed

RetrySpec == RetryInit /\ [][RetryNext]_vars

\* Every fetch is answered and every sleep ends.
RetryFairSpec ==
    /\ RetrySpec
    /\ WF_vars(\E data \in ReadData : AttemptSucceeds(data))
    /\ WF_vars(\E error \in ReadErrors : AttemptFails(error))
    /\ WF_vars(DelayElapsed)

(***************************************************************************)
(* A session of the editor against the file store: loadFile and            *)
(* saveCurrentFile are a request and, later, the continuation that runs    *)
(* when the request is answered; between the two, other handlers run.      *)
(***************************************************************************)
MaxRequests == 3

SessionLimits ==
    [edits |-> MaxEdits, reorders |-> MaxReorders, configs |-> 0, applies |-> 0,
     presets |-> 0]

SessionEditPaths == {<<>>, <<"plugins", "a">>}

SessionOrders == {<<"b", "a">>}

DisplayContents == {Null, Obj(<<Entry("plugins", Obj(<<Entry("b", K2)>>))>>)}

SessionInit ==
    /\ StoreIdle
    /\ limits = SessionLimits
    /\ PresetIdle
    /\ FileIdle
    /\ persisted = [filename \in Files |-> FileContent(filename)]
    /\ pending = {}
    /\ issued = 0
    /\ syncedContent = Null
    /\ latestLoad = [id |-> 0, filename |-> "", outcome |-> "none", content |-> Null]
    /\ RetryIdle
    /\ PathIdle
    /\ CoerceIdle

SessionFrame == UNCHANGED <<presetVars, pathVars, coerceVars, fileVars, retryVars>>

\* handleFileClick(filename): loadFile(filename) up to its await.
RequestLoadFile(filename) ==
    /\ issued < MaxRequests
    /\ currentFile # Str(filename)
    /\ issued' = issued + 1
    /\ pending' = pending \cup {[id |-> issued + 1, kind |-> "read", filename |-> filename,
                                 content |-> Null]}
    /\ latestLoad' = [id |-> issued + 1, filename |-> filename, outcome |-> "pending",
                      content |-> Null]
    /\ lastOp' = [op |-> "loadFile requested", filename |-> filename]
    /\ UNCHANGED <<storeFields, persisted, syncedContent>>
    /\ SessionFrame

\* fileApi.readFile resolves with what the file store holds: the try branch.
LoadFileResolved(request) ==
    /\ request.kind = "read"
    /\ request.filename \in DOMAIN persisted
    /\ FileLoaded(request.filename, persisted[request.filename])
    /\ pending' = pending \ {request}
    /\ syncedContent' = persisted[request.filename]
    /\ latestLoad' = IF request.id = latestLoad.id
                     THEN [latestLoad EXCEPT !.outcome = "loaded",
                                             !.content = persisted[request.filename]]
                     ELSE latestLoad
    /\ UNCHANGED <<persisted, issued>>

\* fileApi.readFile rejects: the catch branch.
LoadFileRejected(request) ==
    /\ request.kind = "read"
    /\ FileNotLoaded(request.filename)
    /\ pending' = pending \ {request}
    /\ latestLoad' = IF request.id = latestLoad.id
                     THEN [latestLoad EXCEPT !.outcome = "failed"]
                     ELSE latestLoad
    /\ UNCHANGED <<persisted, issued, syncedContent>>

\* saveCurrentFile up to its await: the request carries the file name and
\* JSON.stringify of the content read at the call.
RequestSave ==
    /\ issued < MaxRequests
    /\ currentFile # Null
    /\ Truthy(jsonContent)
    /\ JsonClone(jsonContent) # Throw
    /\ issued' = issued + 1
    /\ pending' = pending \cup {[id |-> issued + 1, kind |-> "save",
                                 filename |-> currentFile.s,
                                 content |-> JsonClone(jsonContent)]}
    /\ lastOp' = [op |-> "saveCurrentFile requested"]
    /\ UNCHANGED <<storeFields, persisted, syncedContent, latestLoad>>
    /\ SessionFrame

\* fileApi.saveFile resolves: the file store holds the content sent.
SaveResolved(request) ==
    /\ request.kind = "save"
    /\ FileSaved
    /\ pending' = pending \ {request}
    /\ persisted' = [filename \in DOMAIN persisted \cup {request.filename} |->
                        IF filename = request.filename THEN request.content
                        ELSE persisted[filename]]
    /\ syncedContent' = request.content
    /\ UNCHANGED <<issued, latestLoad>>

\* fileApi.saveFile rejects: the catch branch sets error and loading only.
SaveRejected(request) ==
    /\ request.kind = "save"
    /\ pending' = pending \ {request}
    /\ lastOp' = [op |-> "saveCurrentFile failed"]
    /\ UNCHANGED <<storeFields, persisted, issued, syncedContent, latestLoad>>
    /\ SessionFrame

\* deleteFile(filename), its request answered at once: the file is gone and
\* the store forgets it if it is the current file.
DeleteFile(filename) ==
    /\ issued < MaxRequests
    /\ filename \in DOMAIN persisted
    /\ issued' = issued + 1
    /\ persisted' = [f \in DOMAIN persisted \ {filename} |-> persisted[f]]
    /\ IF currentFile = Str(filename)
       THEN /\ currentFile' = Null
            /\ jsonContent' = Null
            /\ sameObject' = {}
       ELSE UNCHANGED <<currentFile, jsonContent, sameObject>>
    /\ lastOp' = [op |-> "deleteFile", filename |-> filename]
    /\ UNCHANGED <<originalJsonContent, displayJsonContent, jsonData, displayJsonData,
                   isModified, globalSelectedContainerType, loadedContent,
                   savedSinceLoad, used, limits, pending, syncedContent, latestLoad>>
    /\ SessionFrame

\* updateDisplayJsonContent(content): both fields hold the object passed.
UpdateDisplayJsonContent(content) ==
    /\ used.edits < limits.edits
    /\ displayJsonContent' = content
    /\ jsonContent' = content
    /\ displayJsonData' = DisplayJsonDataOf(content)
    /\ sameObject' = {"displayJsonContent"}
    /\ used' = [used EXCEPT !.edits = @ + 1]
    /\ lastOp' = [op |-> "updateDisplayJsonContent"]
    /\ UNCHANGED <<currentFile, originalJsonContent, jsonData, isModified,
                   globalSelectedContainerType, loadedContent, savedSinceLoad, limits,
                   asyncVars>>
    /\ SessionFrame

\* The delete handler called for the root: it calls the store all the same.
HandleDelete_NoRootCheck(path, confirmed) ==
    IF confirmed /\ Truthy(jsonContent) /\ DeleteValueByPath(jsonContent, path).ret # Throw
    THEN Edited(DeleteValueByPath(jsonContent, path), path = <<>>,
                [op |-> "deleteJsonProperty", path |-> path, handler |-> TRUE])
    ELSE /\ lastOp' = [op |-> "handleDelete", path |-> path, handler |-> TRUE]
         /\ UNCHANGED <<storeFields, asyncVars>>
         /\ SessionFrame

\* handleDelete of the tree node at `path`: nothing for the root, nothing
\* when the user declines; otherwise deleteJsonProperty(path), a throw of
\* which is caught.
HandleDelete(path, confirmed) ==
    IF path # <<>> /\ confirmed /\ Truthy(jsonContent)
       /\ DeleteValueByPath(jsonContent, path).ret # Throw
    THEN Edited(DeleteValueByPath(jsonContent, path), path = <<>>,
                [op |-> "deleteJsonProperty", path |-> path, handler |-> TRUE])
    ELSE /\ lastOp' = [op |-> "handleDelete", path |-> path, handler |-> TRUE]
         /\ UNCHANGED <<storeFields, asyncVars>>
         /\ SessionFrame

SessionNext ==
    \/ \E filename \in Files : RequestLoadFile(filename)
    \/ \E request \in pending : LoadFileResolved(request)
    \/ \E request \in pending : LoadFileRejected(request)
    \/ RequestSave
    \/ \E request \in pending : SaveResolved(request)
    \/ \E request \in pending : SaveRejected(request)
    \/ \E filename \in Files : DeleteFile(filename)
    \/ \E content \in DisplayContents : UpdateDisplayJsonContent(content)
    \/ \E path \in SessionEditPaths : UpdateJsonValue(path, Num(7))
    \/ AddJsonProperty(<<>>, "d", Num(0))
    \/ \E path \in SessionEditPaths : DeleteJsonProperty(path)
    \/ \E path \in SessionEditPaths, confirmed \in BOOLEAN : HandleDelete(path, confirmed)
    \/ ResetDisplayToOriginal
    \/ \E newOrder \in SessionOrders : UpdatePluginsOrder(newOrder)

SessionSpec == SessionInit /\ [][SessionNext]_vars

(***************************************************************************)
(* The editor used for container slots and presets only: no content edit,  *)
(* one more slot operation than in the runs above.                         *)
(***************************************************************************)
SlotLimits ==
    [edits |-> 0, reorders |-> MaxReorders, configs |-> MaxConfigs + 1,
     applies |-> MaxApplies, presets |-> MaxPresets]

SlotInit ==
    /\ StoreIdle
    /\ limits = SlotLimits
    /\ PresetIdle
    /\ FileIdle
    /\ AsyncIdle
    /\ RetryIdle
    /\ PathIdle
    /\ CoerceIdle

\* The file of a run is loaded once, first.
LoadFirstFile(filename) ==
    /\ currentFile = Null
    /\ LoadFile(filename)

SlotNext ==
    \/ \E filename \in Files : LoadFirstFile(filename)
    \/ \E name \in PresetNames : SavePreset(name)
    \/ \E presetId \in PresetIds : ApplyPreset(presetId)
    \/ \E newOrder \in NewOrders : UpdatePluginsOrder(newOrder)
    \/ \E parentPath \in ConfigPaths, containerIndex \in 0..MaxSlot,
          childPath \in ChildPaths :
           HandleChildSelect(parentPath, containerIndex, childPath)
    \/ \E parentPath \in ConfigPaths, containerIndex \in 0..MaxSlot,
          childPath \in ChildPaths :
           CallSetParentDisplayConfig(parentPath, containerIndex, childPath)
    \/ \E parentPath \in RemovePaths, containerIndex \in 0..MaxSlot :
           RemoveParentDisplayConfig(parentPath, containerIndex)

SlotSpec == SlotInit /\ [][SlotNext]_vars

(***************************************************************************)
(* Key rename of the tree component (saveEdit, editing.type = 'key'):      *)
(* deleteJsonProperty(path) then addJsonProperty(parentPath, newKey,       *)
(* node.value), as the two store actions apply them to the content.  The   *)
(* store actions do nothing on falsy content.                              *)
(***************************************************************************)
RenameKey_KeepsOldKey(content, path, newKey, nodeValue) ==
    IF Truthy(content)
    THEN SetValueByPath(content, Append(Front(path), newKey), nodeValue).ret
    ELSE content

RenameKey(content, path, newKey, nodeValue) ==
    LET deleted == IF Truthy(content) THEN DeleteValueByPath(content, path).ret
                   ELSE content
    IN  IF deleted = Throw THEN Throw
        ELSE IF Truthy(deleted)
        THEN SetValueByPath(deleted, Append(Front(path), newKey), nodeValue).ret
        ELSE deleted

(***************************************************************************)
(* The path functions applied to bounded inputs                            *)
(***************************************************************************)
MaxPathLen == 2

PathKeys == {"a", "b", "z", "0", "1", "-1"}

RECURSIVE PathsUpTo(_)
PathsUpTo(n) ==
    IF n = 0 THEN {<<>>}
    ELSE LET shorter == PathsUpTo(n - 1)
         IN  shorter \cup {Append(p, k) : p \in shorter, k \in PathKeys}

PathDocs ==
    { Obj(<<Entry("a", Num(1)), Entry("b", Num(2))>>),
      Obj(<<Entry("a", Obj(<<Entry("a", Num(1)), Entry("b", Num(2))>>)),
            Entry("b", Arr(<<Num(1), Num(2), Num(3)>>))>>),
      Arr(<<Obj(<<Entry("a", Num(1))>>), Num(2), Num(3)>>),
      Obj(<<Entry("a", Null), Entry("b", Str(<<"x", "y">>))>>),
      Obj(<<Entry("0", Num(1)), Entry("a", Num(2)),
            Entry("b", Obj(<<Entry("1", Num(3)), Entry("z", Num(4))>>))>>),
      Obj(<<Entry("a", Arr(<<Num(1)>>))>>),
      Num(5),
      Null }

PathVals ==
    { Null, Bool(FALSE), Num(7), Str(<<"x">>),
      Obj(<<Entry("a", Num(1))>>), Arr(<<Num(1)>>) }

PathInit ==
    /\ CoerceIdle
    /\ StoreIdle
    /\ limits = NoneUsed
    /\ PresetIdle
    /\ FileIdle
    /\ AsyncIdle
    /\ RetryIdle
    /\ pOp = "input"
    /\ pRoot \in PathDocs
    /\ pPath \in PathsUpTo(MaxPathLen)
    /\ pVal \in PathVals
    /\ pKey \in PathKeys
    /\ pRet = Undefined
    /\ pArg = pRoot

ApplyGet ==
    /\ pOp = "input"
    /\ pOp' = "get"
    /\ pRet' = GetValueByPath(pRoot, pPath)
    /\ UNCHANGED <<pRoot, pPath, pVal, pKey, pArg, coerceVars, storeVars, presetVars, fileVars, asyncVars, retryVars>>

ApplySet ==
    /\ pOp = "input"
    /\ LET r == SetValueByPath(pRoot, pPath, pVal)
       IN  /\ pOp' = "set"
           /\ pRet' = r.ret
           /\ pArg' = r.arg
    /\ UNCHANGED <<pRoot, pPath, pVal, pKey, coerceVars, storeVars, presetVars, fileVars, asyncVars, retryVars>>

ApplyDelete ==
    /\ pOp = "input"
    /\ LET r == DeleteValueByPath(pRoot, pPath)
       IN  /\ pOp' = "delete"
           /\ pRet' = r.ret
           /\ pArg' = r.arg
    /\ UNCHANGED <<pRoot, pPath, pVal, pKey, coerceVars, storeVars, presetVars, fileVars, asyncVars, retryVars>>

\* saveEdit renames the key of a node the tree shows: the node exists, the
\* new key is non-empty and differs from the old one.
ApplyRename ==
    /\ pOp = "input"
    /\ pPath # <<>>
    /\ GetValueByPath(pRoot, pPath) # Undefined
    /\ pKey # "" /\ pKey # Last(pPath)
    /\ pOp' = "rename"
    /\ pRet' = RenameKey(pRoot, pPath, pKey, GetValueByPath(pRoot, pPath))
    /\ UNCHANGED <<pRoot, pPath, pVal, pKey, pArg, coerceVars, storeVars, presetVars, fileVars, asyncVars, retryVars>>

PathNext == ApplyGet \/ ApplySet \/ ApplyDelete \/ ApplyRename

PathSpec == PathInit /\ [][PathNext]_vars

(***************************************************************************)
(* The value edit applied to bounded texts: up to MaxParts fragments typed *)
(* one after another.                                                      *)
(***************************************************************************)
MaxParts == 3

Fragments ==
    { TextNull, TextTrue, TextFalse, <<" ">>, <<Quote>>, <<"-">>, <<".">>,
      <<"0">>, <<"1">>, <<"x">> }

RECURSIVE TextsUpTo(_)
TextsUpTo(n) ==
    IF n = 0 THEN {<<>>}
    ELSE LET shorter == TextsUpTo(n - 1)
         IN  shorter \cup {s \o f : s \in shorter, f \in Fragments}

CoerceInit ==
    /\ PathIdle
    /\ StoreIdle
    /\ limits = NoneUsed
    /\ PresetIdle
    /\ FileIdle
    /\ AsyncIdle
    /\ RetryIdle
    /\ cOp = "input"
    /\ cText \in TextsUpTo(MaxParts)
    /\ cRet = Undefined

SaveEditValue ==
    /\ cOp = "input"
    /\ cOp' = "coerced"
    /\ cRet' = CoerceEdit(cText)
    /\ UNCHANGED <<cText, pathVars, storeVars, presetVars, fileVars, asyncVars, retryVars>>

CoerceNext == SaveEditValue

CoerceSpec == CoerceInit /\ [][CoerceNext]_vars

(***************************************************************************)
(* Claims about the path functions (checked under PathSpec)                *)
(***************************************************************************)
\* setValueByPath writes `path` without throwing: every value it steps
\* through before the last segment is an object or an array, or is absent
\* (and is then created as an object).
RECURSIVE Settable(_, _)
Settable(v, path) ==
    \/ path = <<>>
    \/ /\ IsContainer(v)
       /\ \/ Len(path) = 1
          \/ GetProp(v, Head(path)) = Undefined
          \/ Settable(GetProp(v, Head(path)), Tail(path))

\* C4 as stated: for every document v, path p and value x (scalar and null
\* intermediates included), getValueByPath(setValueByPath(v, p, x), p) = x.
C4_RoundTripEveryPath ==
    pOp = "set" => (pRet # Throw /\ GetValueByPath(pRet, pPath) = pVal)

\* C4 amended: the round trip holds for every path whose intermediate values
\* are objects, arrays or absent; on every other path setValueByPath throws.
C4_RoundTripSettable ==
    pOp = "set" =>
        IF Settable(pRoot, pPath)
        THEN pRet # Throw /\ GetValueByPath(pRet, pPath) = pVal
        ELSE pRet = Throw

C4_Witness ==
    /\ pOp = "set"
    /\ Len(pPath) = 2
    /\ GetValueByPath(pRoot, <<pPath[1]>>) = Undefined
    /\ pVal.t = "object"
    /\ GetValueByPath(pRet, pPath) = pVal

C6_ArrayDeleteShifts ==
    (/\ pOp = "delete"
     /\ pPath # <<>>
     /\ GetValueByPath(pRoot, Front(pPath)).t = "array"
     /\ IsIndexKey(Last(pPath))
     /\ KeyIndex(Last(pPath)) < Len(GetValueByPath(pRoot, Front(pPath)).e))
    => LET old == GetValueByPath(pRoot, Front(pPath)).e
           i == KeyIndex(Last(pPath))
           new == GetValueByPath(pRet, Front(pPath))
       IN  /\ pRet # Throw
           /\ new.t = "array"
           /\ Len(new.e) = Len(old) - 1
           /\ \A j \in 0..(Len(old) - 1) :
                 /\ j < i => new.e[j + 1] = old[j + 1]
                 /\ j > i => new.e[j] = old[j + 1]

C6_Witness ==
    /\ pOp = "delete"
    /\ Len(pPath) = 2
    /\ GetValueByPath(pRoot, Front(pPath)).t = "array"
    /\ Last(pPath) = "1"
    /\ Len(GetValueByPath(pRoot, Front(pPath)).e) = 3
    /\ GetValueByPath(pRet, Front(pPath)).e = <<Num(1), Num(3)>>

\* C7 as stated: a rename leaves the renamed entry last in its parent's key
\* order, bound to its value, for every new key name.
C7_RenameLastEveryKey ==
    (/\ pOp = "rename"
     /\ GetValueByPath(pRoot, Front(pPath)).t = "object")
    => LET new == GetValueByPath(pRet, Front(pPath))
       IN  /\ pRet # Throw
           /\ new.t = "object"
           /\ Len(new.e) > 0
           /\ new.e[Len(new.e)] = Entry(pKey, GetValueByPath(pRoot, pPath))

\* C7 amended: when the new key is not an array-index string and is not
\* already a key of the parent, the parent's entries after the rename are
\* the other entries in their old order followed by the renamed entry.
C7_RenameLastFreshKey ==
    (/\ pOp = "rename"
     /\ GetValueByPath(pRoot, Front(pPath)).t = "object"
     /\ ~IsIndexKey(pKey)
     /\ ~HasKey(GetValueByPath(pRoot, Front(pPath)).e, pKey))
    => LET old == GetValueByPath(pRoot, Front(pPath)).e
           new == GetValueByPath(pRet, Front(pPath))
       IN  /\ pRet # Throw
           /\ new = Obj(Append(EntryDel(old, Last(pPath)),
                               Entry(pKey, GetValueByPath(pRoot, pPath))))

C7_Witness ==
    /\ pOp = "rename"
    /\ pRoot = Obj(<<Entry("a", Num(1)), Entry("b", Num(2))>>)
    /\ pPath = <<"a">>
    /\ pKey = "z"
    /\ pRet = Obj(<<Entry("b", Num(2)), Entry("z", Num(1))>>)

(***************************************************************************)
(* Claims about the literal coercion (checked under CoerceSpec)            *)
(***************************************************************************)
Spaces(n) == [i \in 1..n |-> " "]

\* s is text without the spaces at its two ends.
IsTrimOf(s, text) ==
    /\ s = <<>> \/ (~IsSpace(s[1]) /\ ~IsSpace(s[Len(s)]))
    /\ \E i, j \in 0..Len(text) : text = Spaces(i) \o s \o Spaces(j)

\* The five rules, first match wins, read on the text s.
RuleResult(s, quotedMinLen) ==
    CASE s = TextNull -> Null
      [] s = TextTrue -> Bool(TRUE)
      [] s = TextFalse -> Bool(FALSE)
      [] MatchesNumber(s) -> NumberOf(s)
      [] ~MatchesNumber(s) /\ Len(s) >= quotedMinLen
            /\ s[1] = Quote /\ s[Len(s)] = Quote ->
            Str([i \in 1..(IF Len(s) >= 2 THEN Len(s) - 2 ELSE 0) |-> s[i + 1]])
      [] OTHER -> Str(s)

\* C8 as stated: the rules classify the raw text as typed; a text wrapped
\* in a pair of double quotes loses them; any other text is kept unmodified.
C8_RulesOnRawText ==
    cOp = "coerced" => cRet = RuleResult(cText, 2)

\* C8 amended: the rules classify the text with the white space at its two
\* ends removed, and the quote rule takes every text that starts and ends
\* with a double quote, the one-character text of a single quote included
\* (it becomes the empty string).
C8_RulesOnTrimmedText ==
    cOp = "coerced" =>
        \A n, m \in 0..Len(cText) :
            LET s == SubSeq(cText, n + 1, Len(cText) - m)
            IN  IsTrimOf(s, cText) /\ n + m <= Len(cText) /\ cText = Spaces(n) \o s \o Spaces(m)
                => cRet = RuleResult(s, 1)

C8_Witness ==
    /\ cOp = "coerced"
    /\ cText = <<Quote, "1", Quote>>
    /\ cRet = Str(<<"1">>)

(***************************************************************************)
(* Claims about the editor store                                           *)
(***************************************************************************)
HasNonEmptyConfig(node) ==
    node.parentDisplayConfig.has /\ node.parentDisplayConfig.selectedChildren # <<>>

EditOps == {"updateJsonValue", "addJsonProperty", "deleteJsonProperty"}

\* C1: a reorder leaves originalJsonContent as it was before the call.
C1_ReorderKeepsOriginal ==
    [][lastOp'.op = "updatePluginsOrder" => originalJsonContent' = originalJsonContent]_vars

\* C2: after resetDisplayToOriginal the display content is the content of
\* the last load (stated for the runs without a save since that load, where
\* "last loaded" and "last saved" cannot differ).
C2_ResetRestoresLoaded ==
    (lastOp.op = "resetDisplayToOriginal" /\ ~savedSinceLoad)
        => displayJsonContent = loadedContent

\* C3: after an edit of the tree the displayed copy reflects it: the
\* display content and the display tree hold x at the edited path, and a
\* deleted key of an object is absent from them.
C3_DisplayReflectsEdit ==
    /\ lastOp.op \in {"updateJsonValue", "addJsonProperty"} =>
           /\ GetValueByPath(displayJsonContent, lastOp.path) = lastOp.value
           /\ NodeAt(displayJsonData, lastOp.path) # Null
           /\ NodeAt(displayJsonData, lastOp.path).value = lastOp.value
    /\ (/\ lastOp.op = "deleteJsonProperty"
        /\ lastOp.path # <<>>
        /\ GetValueByPath(displayJsonContent, Front(lastOp.path)).t = "object") =>
           /\ GetValueByPath(displayJsonContent, lastOp.path) = Undefined
           /\ NodeAt(displayJsonData, lastOp.path) = Null

\* C5, store part: an edit applied to jsonContent leaves originalJsonContent
\* as it was.
C5_EditKeepsOriginal ==
    [][lastOp'.op \in EditOps => originalJsonContent' = originalJsonContent]_vars

RECURSIVE ExpectedPlugins(_, _)
\* The keys of newOrder that the old plugins have, in newOrder's order,
\* each with its prior value.
ExpectedPlugins(oldPlugins, newOrder) ==
    IF newOrder = <<>> THEN <<>>
    ELSE LET before == ExpectedPlugins(oldPlugins, Front(newOrder))
             name == Last(newOrder)
         IN  IF GetProp(oldPlugins, name) = Undefined \/ HasKey(before, name)
             THEN before
             ELSE Append(before, Entry(name, GetProp(oldPlugins, name)))

\* C9: a reorder yields the plugins object of exactly the keys of newOrder
\* that the old plugins had, in that order, each with its prior value
\* whatever it is, and leaves the other top-level keys as they were.
C9_ReorderResult ==
    [][lastOp'.op = "updatePluginsOrder" =>
          /\ GetProp(jsonContent', "plugins") =
                 Obj(ExpectedPlugins(GetProp(jsonContent, "plugins"), lastOp'.newOrder))
          /\ \A i \in 1..Len(SpreadEntries(jsonContent)) :
                 LET en == SpreadEntries(jsonContent)[i]
                 IN  en.k # "plugins" => GetProp(jsonContent', en.k) = en.v
          /\ \A i \in 1..Len(SpreadEntries(jsonContent')) :
                 LET en == SpreadEntries(jsonContent')[i]
                 IN  en.k # "plugins" => HasKey(SpreadEntries(jsonContent), en.k)
      ]_vars

\* The configs of the old tree are those of the new tree at every path that
\* both have.
ConfigsPreserved(old, new) ==
    \A path \in NodePaths(old) :
        (HasNonEmptyConfig(NodeAt(old, path)) /\ path \in NodePaths(new)) =>
            NodeAt(new, path).parentDisplayConfig = NodeAt(old, path).parentDisplayConfig

\* C10: a reorder keeps the non-empty parentDisplayConfig of every node that
\* still exists at its path, in jsonData and in the display tree.
C10_ReorderPreservesConfigs ==
    [][lastOp'.op = "updatePluginsOrder" =>
          /\ ConfigsPreserved(jsonData, jsonData')
          /\ ConfigsPreserved(displayJsonData, displayJsonData')
      ]_vars

(***************************************************************************)
(* Claims about misses of the path functions (checked under PathSpec)      *)
(***************************************************************************)
\* Some value reached before the last segment of the path is a string, a
\* number, a boolean or null.
NonCompositeBeforeLast(v, path) ==
    \E i \in 0..(Len(path) - 1) :
        LET reached == GetValueByPath(v, SubSeq(path, 1, i))
        IN  reached = Null \/ IsPrimitive(reached)

\* Some segment of the path is absent: walking it reaches Undefined before
\* the end.
SegmentAbsent(v, path) ==
    \E i \in 1..Len(path) : GetValueByPath(v, SubSeq(path, 1, i)) = Undefined

\* C19: getValueByPath never throws, and returns undefined whenever a segment
\* of the path is absent or a value reached before the last segment is a
\* string, a number, a boolean or null.
C19_GetMissIsUndefined ==
    pOp = "get" =>
        /\ pRet # Throw
        /\ (SegmentAbsent(pRoot, pPath) \/ NonCompositeBeforeLast(pRoot, pPath))
               => pRet = Undefined

RECURSIVE MissingIntermediate(_, _)
\* An intermediate segment of the path does not exist: walking the path
\* through objects and arrays, a segment before the last is absent from the
\* object or array reached.
MissingIntermediate(v, path) ==
    /\ Len(path) >= 2
    /\ IsContainer(v)
    /\ \/ GetProp(v, Head(path)) = Undefined
       \/ MissingIntermediate(GetProp(v, Head(path)), Tail(path))

SelectedChildren(tree, path) ==
    IF NodeAt(tree, path) = Null THEN <<>>
    ELSE NodeAt(tree, path).parentDisplayConfig.selectedChildren

\* The slot indices of the entries of a node, as a set.
SlotsOf(tree, path) ==
    {SelectedChildren(tree, path)[i].containerIndex :
        i \in 1..Len(SelectedChildren(tree, path))}

\* The entries of the node at the path other than those of one slot.
OtherSlots(tree, path, containerIndex) ==
    SelectSeq(SelectedChildren(tree, path),
              LAMBDA item : item.containerIndex # containerIndex)

OneEntryPerSlot(tree) ==
    \A path \in NodePaths(tree) :
        \A i, j \in 1..Len(SelectedChildren(tree, path)) :
            SelectedChildren(tree, path)[i].containerIndex =
                SelectedChildren(tree, path)[j].containerIndex => i = j

\* C11: in every reachable state every node of jsonData and of the display
\* tree holds at most one entry per container index.
C11_OneEntryPerSlot ==
    OneEntryPerSlot(jsonData) /\ OneEntryPerSlot(displayJsonData)

\* A second assignment of a slot of one node: the node, the target of the
\* last set, has one entry for the slot after two slot operations, and a
\* synchronized sibling of the display tree has one entry too.
C11_Witness ==
    /\ lastOp.op = "setParentDisplayConfig"
    /\ lastOp.path = <<"plugins", "a">>
    /\ lastOp.containerIndex = 0
    /\ used.configs = 2
    /\ Len(SelectedChildren(jsonData, lastOp.path)) = 1
    /\ SelectedChildren(jsonData, lastOp.path)[1].childPath = <<"opts", "k">>
    /\ Len(SelectedChildren(displayJsonData, <<"plugins", "b">>)) = 1

\* The nodes of both trees are at the same paths with the same values, and
\* every node but the one at the path has the same configuration.
SameButConfigAt(old, new, path) ==
    /\ NodePaths(old) = NodePaths(new)
    /\ \A q \in NodePaths(old) :
          /\ NodeAt(new, q).value = NodeAt(old, q).value
          /\ q # path =>
                NodeAt(new, q).parentDisplayConfig = NodeAt(old, q).parentDisplayConfig

\* C13: setting a slot changes no document content, and in jsonData it
\* changes the configuration of the targeted node only: the synchronization
\* of the siblings is applied to the display tree alone.
C13_SyncOnlyInDisplayTree ==
    [][lastOp'.op = "setParentDisplayConfig" =>
          /\ jsonContent' = jsonContent
          /\ originalJsonContent' = originalJsonContent
          /\ displayJsonContent' = displayJsonContent
          /\ SameButConfigAt(jsonData, jsonData', lastOp'.path)
      ]_vars

\* A slot was set under plugins and a sibling has it in the display tree and
\* not in jsonData.
C13_Witness ==
    /\ lastOp.op = "setParentDisplayConfig"
    /\ lastOp.path = <<"plugins", "b">>
    /\ SlotsOf(displayJsonData, <<"plugins", "a">>) = {lastOp.containerIndex}
    /\ SlotsOf(jsonData, <<"plugins", "a">>) = {}
    /\ SlotsOf(jsonData, <<"plugins", "b">>) = {lastOp.containerIndex}

\* C14: after removeParentDisplayConfig(parentPath, i) the node at parentPath
\* has no entry for slot i in jsonData nor in the display tree, its other
\* slots are as before, and so are the entries of every other node.
C14_RemoveClearsSlotInBothTrees ==
    [][lastOp'.op = "removeParentDisplayConfig" =>
          \A tree \in {<<jsonData, jsonData'>>, <<displayJsonData, displayJsonData'>>} :
              tree[1] # Null =>
                  /\ SameButConfigAt(tree[1], tree[2], lastOp'.path)
                  /\ lastOp'.containerIndex \notin SlotsOf(tree[2], lastOp'.path)
                  /\ OtherSlots(tree[2], lastOp'.path, lastOp'.containerIndex) =
                         OtherSlots(tree[1], lastOp'.path, lastOp'.containerIndex)
      ]_vars

\* The path of the descendant chosen by the last set, relative to its parent.
ChosenRelativePath(op) ==
    IF "type" \in DOMAIN op.childData
    THEN SubSeq(op.childData.childPath, Len(op.path) + 1, Len(op.childData.childPath))
    ELSE op.childData.childPath

\* The descendant of a sibling the resolution order names: at the identical
\* relative path, else the final key under `opts`, else the final key as a
\* direct child; Null when nothing resolves.
ResolvedDescendant(sibling, relativePath) ==
    IF NodeAt(sibling, relativePath) # Null THEN NodeAt(sibling, relativePath)
    ELSE IF NodeAt(sibling, <<"opts", Last(relativePath)>>) # Null
    THEN NodeAt(sibling, <<"opts", Last(relativePath)>>)
    ELSE NodeAt(sibling, <<Last(relativePath)>>)

\* The other nodes at the depth of a path under plugins.
SiblingPaths(tree, path) ==
    {q \in NodePaths(tree) : q # <<>> /\ q[1] = "plugins" /\ Len(q) = Len(path) /\ q # path}

\* C12: a set on a node under plugins sets the same slot on every other
\* display node at the same depth under plugins to the descendant resolved
\* by: identical relative path, else final key under `opts`, else final key
\* as a direct child; a sibling where nothing resolves keeps its slots.
C12_SyncResolutionOrder ==
    [][(lastOp'.op = "setParentDisplayConfig" /\ lastOp'.path # <<>>
          /\ lastOp'.path[1] = "plugins") =>
          \A q \in SiblingPaths(displayJsonData, lastOp'.path) :
              LET resolved == ResolvedDescendant(NodeAt(displayJsonData, q),
                                                 ChosenRelativePath(lastOp'))
                  slot == lastOp'.containerIndex
                  after == SelectedChildren(displayJsonData', q)
              IN  IF resolved = Null
                  THEN after = SelectedChildren(displayJsonData, q)
                  ELSE /\ \E i \in 1..Len(after) :
                             /\ after[i].containerIndex = slot
                             /\ Field(after[i], "childValue") = resolved.value
                       /\ OtherSlots(displayJsonData', q, slot) =
                              OtherSlots(displayJsonData, q, slot)
      ]_vars

(***************************************************************************)
(* Claims about presets (checked under SlotSpec)                           *)
(***************************************************************************)
\* C15: applying a saved preset restores the plugin key order and, for
\* every node path, the set of slot entries the display tree had when the
\* preset was saved, whatever reorders and slot changes came in between.
C15_PresetRoundTrip ==
    [][(lastOp'.op = "applyPreset" /\ ~lastOp'.thrown) =>
          /\ PluginOrderOf(jsonContent') = captured[lastOp'.presetId].pluginOrder
          /\ SlotEntriesByPath(displayJsonData') = captured[lastOp'.presetId].slots
      ]_vars

(***************************************************************************)
(* Claims about the preset manager (checked under PresetSpec)              *)
(***************************************************************************)
StoredNames == {storage.presets[i].name : i \in 1..Len(storage.presets)}

\* C16: savePreset with an empty or whitespace-only name, an empty plugin
\* order or a name equal to a stored preset's name fails, and leaves the
\* stored preset list and the last-used pointer as they were.
C16_RejectedSaveChangesNothing ==
    [][(/\ lastOp'.op = "presetManager.savePreset"
        /\ \/ Trim(lastOp'.name) = <<>>
           \/ lastOp'.pluginOrder = <<>>
           \/ lastOp'.name \in StoredNames) =>
          /\ ~lastOp'.success
          /\ storage'.presets = storage.presets
          /\ storage'.lastUsedPresetId = storage.lastUsedPresetId
      ]_vars

\* C16 with the comparison savePreset makes: savePreset with an empty or
\* whitespace-only name, an empty plugin order or a name whose trimmed form
\* equals a stored preset's name fails, and leaves the stored preset list
\* and the last-used pointer as they were.
C16_RejectedSaveTrimmedName ==
    [][(/\ lastOp'.op = "presetManager.savePreset"
        /\ \/ Trim(lastOp'.name) = <<>>
           \/ lastOp'.pluginOrder = <<>>
           \/ Trim(lastOp'.name) \in StoredNames) =>
          /\ ~lastOp'.success
          /\ storage'.presets = storage.presets
          /\ storage'.lastUsedPresetId = storage.lastUsedPresetId
      ]_vars

\* A save was rejected for its name while a preset is stored and is the
\* last used one.
C16_Witness ==
    /\ lastOp.op = "presetManager.savePreset"
    /\ ~lastOp.success
    /\ lastOp.message = "name exists"
    /\ lastOp.name = <<"p", " ">>
    /\ Len(storage.presets) = 1
    /\ storage.presets[1].name = <<"p">>
    /\ storage.lastUsedPresetId = storage.presets[1].id

\* C17: no two stored presets have the same name.
C17_NamesUnique ==
    \A i, j \in 1..Len(storage.presets) :
        storage.presets[i].name = storage.presets[j].name => i = j

(***************************************************************************)
(* Claims about the file service (checked under FileSpec)                  *)
(***************************************************************************)
FileOps == {"readJsonFile", "saveJsonFile", "createJsonFile", "deleteJsonFile"}

\* The resolved path is the root directory or lies in it.
InsideRoot(safePath) ==
    /\ Len(safePath) >= Len(PROJECT_ROOT)
    /\ SubSeq(safePath, 1, Len(PROJECT_ROOT)) = PROJECT_ROOT

\* C18: a file operation whose file name resolves outside the root
\* directory is rejected, and no file is read, written or removed.
C18_PathContainment ==
    [][(lastOp'.op \in FileOps /\ ~InsideRoot(Resolve(lastOp'.filename))) =>
          /\ lastOp'.thrown
          /\ lastOp'.read = NothingRead
          /\ disk' = disk
      ]_vars

(***************************************************************************)
(* Claims about deleting what is not there (checked under PathSpec)        *)
(***************************************************************************)
\* The path's parent is an object or an array of the document and the last
\* segment names nothing in it: an absent key, an index that is out of
\* range or negative, or a segment that is no number.
AddressesNothing(v, path) ==
    /\ path # <<>>
    /\ LET parent == GetValueByPath(v, Front(path))
           lastKey == Last(path)
       IN  \/ parent.t = "object" /\ ~HasKey(parent.e, lastKey)
           \/ /\ parent.t = "array"
              /\ \/ ParseInt(lastKey).nan
                 \/ ParseInt(lastKey).n < 0
                 \/ ParseInt(lastKey).n >= Len(parent.e)

\* C29: deleteValueByPath(root, p) returns a document equal to root
\* whenever p addresses no existing node.
C29_DeleteMissingKeepsRoot ==
    (pOp = "delete" /\ AddressesNothing(pRoot, pPath)) => pRet = pRoot

(***************************************************************************)
(* Claims about the siblings of a renamed key (checked under PathSpec)     *)
(***************************************************************************)
\* C28: renaming a key of an object leaves every other entry of the parent
\* present with its value, and the parent with as many keys as before, for
\* every non-empty new key different from the old one.
C28_RenameKeepsSiblings ==
    (/\ pOp = "rename"
     /\ GetValueByPath(pRoot, Front(pPath)).t = "object")
    => LET old == GetValueByPath(pRoot, Front(pPath)).e
           new == GetValueByPath(pRet, Front(pPath))
       IN  /\ pRet # Throw
           /\ new.t = "object"
           /\ Len(new.e) = Len(old)
           /\ \A i \in 1..Len(old) :
                  old[i].k # Last(pPath) =>
                      /\ HasKey(new.e, old[i].k)
                      /\ EntryGet(new.e, old[i].k) = old[i].v

(***************************************************************************)
(* Claims about the retries of a file read (checked under RetrySpec)       *)
(***************************************************************************)
Failures(outcomes) == SelectSeq(outcomes, LAMBDA o : ~o.ok)

\* The waits the claim names before the successive retries, in ms.
ClaimedWaits == <<1000, 2000, 3000>>

\* C24: a read that keeps failing is retried up to 3 times, after waits of
\* 1s, 2s and 3s; the first successful attempt's data is returned with no
\* further attempt; after the last failed attempt the last error is thrown.
C24_RetrySchedule ==
    /\ retry.phase = "returned" =>
           /\ Len(Failures(retry.outcomes)) = Len(retry.outcomes) - 1
           /\ Last(retry.outcomes) = [ok |-> TRUE, value |-> retry.result]
           /\ Len(retry.waits) <= Len(ClaimedWaits)
           /\ retry.waits = SubSeq(ClaimedWaits, 1, Len(retry.waits))
           /\ Len(retry.waits) = Len(retry.outcomes) - 1
    /\ retry.phase = "thrown" =>
           /\ Failures(retry.outcomes) = retry.outcomes
           /\ Last(retry.outcomes).value = retry.result
           /\ retry.waits = ClaimedWaits
           /\ Len(retry.outcomes) = Len(ClaimedWaits) + 1

\* The waits and attempts the loop makes: one attempt and at most two more,
\* after waits of 1s and 2s.
C24_ScheduleOfTheLoop ==
    /\ retry.phase = "returned" =>
           /\ Len(Failures(retry.outcomes)) = Len(retry.outcomes) - 1
           /\ Last(retry.outcomes) = [ok |-> TRUE, value |-> retry.result]
           /\ retry.waits = SubSeq(ClaimedWaits, 1, Len(retry.outcomes) - 1)
    /\ retry.phase = "thrown" =>
           /\ Failures(retry.outcomes) = retry.outcomes
           /\ Last(retry.outcomes).value = retry.result
           /\ retry.waits = <<1000, 2000>>
           /\ Len(retry.outcomes) = maxRetries

\* Under RetryFairSpec: a call that has started returns or throws.
C24_Terminates ==
    (retry.phase \in {"fetching", "waiting"}) ~> (retry.phase \in {"returned", "thrown"})

(***************************************************************************)
(* Claims about the shape of the node trees (checked under Spec)           *)
(***************************************************************************)
RECURSIVE NodeCount(_)
NodeCount(node) ==
    IF ~IsNode(node) THEN 0
    ELSE LET counts == [i \in 1..Len(node.children.n) |-> NodeCount(node.children.n[i])]
             Sum[i \in 0..Len(counts)] == IF i = 0 THEN 0 ELSE Sum[i - 1] + counts[i]
         IN  1 + Sum[Len(counts)]

RECURSIVE WellFormedNode(_)
\* depth, children and the children's keys and paths, at a node and below
WellFormedNode(node) ==
    /\ node.depth = Len(node.path)
    /\ (node.children.kind # "none") <=> (node.type \in {"object", "array"})
    /\ node.children.kind = "none" => node.children.n = <<>>
    /\ \A i \in 1..Len(node.children.n) :
           LET child == node.children.n[i]
           IN  child # HoleNode =>
                   /\ child.path = Append(node.path, child.key)
                   /\ node.children.kind = "array" => child.key = IndexToString(i - 1)
                   /\ WellFormedNode(child)

WellFormedTree(tree) ==
    tree # Null =>
        /\ tree.key = "root"
        /\ tree.path = <<>>
        /\ WellFormedNode(tree)
        /\ Cardinality(NodePaths(tree)) = NodeCount(tree)

\* C22: in jsonData and displayJsonData every node's depth is the length of
\* its path, the root has key "root" and the empty path, a child's path is
\* its parent's path followed by the child's key (an array index as a
\* string), children is there exactly for objects and arrays, and no two
\* nodes of a tree have the same path.
C22_TreesWellFormed == WellFormedTree(jsonData) /\ WellFormedTree(displayJsonData)

C22_Witness ==
    /\ lastOp.op = "updateJsonValue"
    /\ IsNode(NodeAt(jsonData, <<"plugins", "a", "0", "k">>))
    /\ NodeAt(jsonData, <<"plugins", "a", "0", "k">>).depth = 4
    /\ NodeAt(jsonData, <<"plugins", "a">>).type = "array"
    /\ IsNode(NodeAt(displayJsonData, <<"plugins", "b">>))

(***************************************************************************)
(* Claims about slot configurations across edits (checked under Spec)      *)
(***************************************************************************)
AtOrBelow(path, q) == Len(path) >= Len(q) /\ SubSeq(path, 1, Len(q)) = q

\* The nodes that exist before and after, outside the edited path, have
\* the parentDisplayConfig they had.
ConfigsKeptOutside(old, new, q) ==
    \A path \in NodePaths(old) \cap NodePaths(new) :
        ~AtOrBelow(path, q) =>
            NodeAt(new, path).parentDisplayConfig = NodeAt(old, path).parentDisplayConfig

\* C30: a structural edit at path q leaves the parentDisplayConfig of every
\* node that still exists and is not at or below q unchanged in both node
\* trees (so a later savePreset, which reads jsonData, still finds it).
C30_EditKeepsConfigs ==
    [][lastOp'.op \in EditOps =>
          /\ ConfigsKeptOutside(jsonData, jsonData', lastOp'.path)
          /\ ConfigsKeptOutside(displayJsonData, displayJsonData', lastOp'.path)
      ]_vars

\* The display tree's half of C30, which the edits of the store satisfy.
C30_EditKeepsDisplayConfigs ==
    [][lastOp'.op \in EditOps =>
          ConfigsKeptOutside(displayJsonData, displayJsonData', lastOp'.path)]_vars

(***************************************************************************)
(* Claims about a session of the editor (checked under SessionSpec)        *)
(***************************************************************************)
\* C21: deleteJsonProperty([]) leaves jsonContent equal to what it was, and
\* the tree's delete handler, called for the root, does not call the store:
\* no field of the store changes.
C21_RootDeleteKeepsDocument ==
    [][/\ (lastOp'.op = "deleteJsonProperty" /\ lastOp'.path = <<>>) =>
              jsonContent' = jsonContent
       /\ (/\ lastOp'.op \in {"deleteJsonProperty", "handleDelete"}
           /\ "handler" \in DOMAIN lastOp'
           /\ lastOp'.path = <<>>) =>
              /\ lastOp'.op = "handleDelete"
              /\ UNCHANGED storeFields
      ]_vars

\* The store was asked to delete the root of a loaded document.
C21_Witness ==
    /\ lastOp.op = "deleteJsonProperty"
    /\ lastOp.path = <<>>
    /\ jsonContent = loadedContent
    /\ jsonContent.t = "object"
    /\ isModified

\* The handler was called for the root of a loaded document.
C21_WitnessHandler ==
    /\ lastOp.op = "handleDelete"
    /\ lastOp.path = <<>>
    /\ jsonContent.t = "object"

\* C23: resetDisplayToOriginal called right after resetDisplayToOriginal
\* leaves the display content and the display tree as the first call left
\* them.
C23_ResetIdempotent ==
    [][(lastOp.op = "resetDisplayToOriginal" /\ lastOp'.op = "resetDisplayToOriginal") =>
          /\ displayJsonContent' = displayJsonContent
          /\ displayJsonData' = displayJsonData
      ]_vars

\* Two resets in a row, the first of which changed the display content.
C23_Witness ==
    /\ lastOp.op = "resetDisplayToOriginal"
    /\ lastOp.again
    /\ used.edits > 0
    /\ displayJsonContent = originalJsonContent
    /\ displayJsonContent # Null

RECURSIVE WithoutConfigs(_)
\* A tree with every parentDisplayConfig cleared: its keys, order and values.
WithoutConfigs(node) ==
    IF ~IsNode(node) THEN node
    ELSE [node EXCEPT !.parentDisplayConfig = NoConfig,
                      !.children.n = [i \in 1..Len(node.children.n) |->
                                         WithoutConfigs(node.children.n[i])]]

\* C25: jsonData is null exactly when jsonContent is null, and otherwise
\* its nodes have the keys, order and values of jsonContent.
C25_JsonDataMirrorsContent ==
    /\ jsonData = Null <=> jsonContent = Null
    /\ jsonData # Null =>
           WithoutConfigs(jsonData) = CreateJsonNode(jsonContent, "root", <<>>)

\* C25 over the steps that rebuild jsonData: loads and edits.
C25_RebuildingStepsMirror ==
    lastOp.op \in {"loadFile", "loadFileFailed"} \cup EditOps => C25_JsonDataMirrorsContent

\* C26: whenever a file is loaded and isModified is false, jsonContent is
\* the content most recently loaded from or successfully saved to the file
\* store, under every interleaving of edits with requests in flight; and a
\* failed save leaves isModified as it was.
C26_UnmodifiedMeansSynced ==
    [][/\ (currentFile' # Null /\ ~isModified') => jsonContent' = syncedContent'
       /\ lastOp'.op = "saveCurrentFile failed" => isModified' = isModified
      ]_vars

\* The last part of C26 alone: a failed save leaves isModified as it was.
C26_FailedSaveKeepsModified ==
    [][lastOp'.op = "saveCurrentFile failed" => isModified' = isModified]_vars

\* C27: once the most recently requested load has succeeded, the answer to
\* an earlier load request, success or failure, changes neither the current
\* file nor the contents: the store stays that of the latest request.
C27_LatestLoadWins ==
    [][(/\ latestLoad.outcome = "loaded"
        /\ \E request \in pending \ pending' :
               request.kind = "read" /\ request.id # latestLoad.id) =>
          UNCHANGED <<currentFile, jsonContent, originalJsonContent, displayJsonContent>>
      ]_vars

\* The same for the answers that arrive in the order of the requests.
C27_InOrderAnswers ==
    [][(\E request \in pending \ pending' :
            request.kind = "read" /\ request.id = latestLoad.id) =>
          \/ /\ lastOp'.op = "loadFile"
             /\ currentFile' = Str(latestLoad.filename)
             /\ jsonContent' = persisted[latestLoad.filename]
          \/ /\ lastOp'.op = "loadFileFailed"
             /\ currentFile' = Null
      ]_vars

====
